---- MODULE Spec2Model ----
(***************************************************************************)
(* Mission controller of the web-controlled navigation robot               *)
(* (src/For Raspberry/my_nav_mission.py) together with the two one-shot    *)
(* flags of the control-plane peer (src/server_ai_model.py) and the        *)
(* asynchronous goal interface of the motion stack.                        *)
(*                                                                         *)
(* The control loop is one sequential process; pc is its position.  Every  *)
(* step of the loop between two interactions with the environment (an HTTP *)
(* call to the peer, a look at the goal's state, a spin of the executor)   *)
(* is one action.  The operator, the motion stack, the clock and the       *)
(* localization stream are the environment.                                *)
(*                                                                         *)
(* Time is kept as ages: is_stable reads only now - window_start_time and  *)
(* wait_for_amcl_stable reads only now - start, so the model keeps these   *)
(* two differences (winAge, locElapsed) in ticks, saturating one past the  *)
(* value each is compared with.                                            *)
(*                                                                         *)
(* In the specifications of the controller a request to the peer is one    *)
(* step.  SpecPeer looks at the peer alone: its handlers run on threads of *)
(* their own and interleave at each access of a shared global, and the     *)
(* record of the current mission follows the statuses posted to it.        *)
(***************************************************************************)
EXTENDS Integers, Sequences, FiniteSets, TLC

\* ---------------------------------------------------------------- bounds
NumWaypoints == 2          \* len(waypoints) of the loaded document (>= 1)
StableWindow == 2          \* AMCL_STABLE_WINDOW_SEC, in model ticks
LocTimeout == 3            \* timeout_sec of wait_for_amcl_stable, in ticks
MaxDocWaypoints == 2       \* longest `waypoints:` list of a document read
MaxTurns == 2              \* full turns added to a yaw, either way
MaxMissions == 2           \* missions the peer registers in a behaviour
MaxStamps == 2             \* writes of one mission's ended_at in a behaviour

\* ------------------------------------------------------ program constants
MAX_WAYPOINT_RETRIES == 3
IMAGES_PER_WAYPOINT == 3
AMCL_MAX_POS_JUMP_CM == 8
AMCL_MAX_YAW_JUMP_DEG == 8

NoPose == [none |-> TRUE]
\* Pose samples of the localization stream: x, y in centimetres, h the half
\* angle atan2(qz, qw) in degrees, so that quat_to_yaw is 2 * h.
Samples == { [x |-> 0, y |-> 0, h |-> 0], [x |-> 20, y |-> 0, h |-> 0] }

Commands == {"none", "abort", "go_home"}

\* ---------------------------------------------------- waypoint document
\* The document read from POSES_FILE, as far as load_waypoints_yaml looks at
\* it besides the numbers: map_frame, home and the waypoints list, where a
\* key may be absent.  A pose entry keeps its frame_id and its id.
Absent == "absent"
Frames == {"map", "odom"}
NoEntry == [none |-> TRUE]
PoseEntries == [frame_id : Frames \cup {Absent}, id : {Absent, "wp1"}]
HomeEntries == [frame_id : Frames \cup {Absent}, id : {Absent}]

RECURSIVE SeqsUpTo(_, _)
\* The sequences over S of length at most n.
SeqsUpTo(S, n) ==
    IF n = 0 THEN {<< >>}
    ELSE LET shorter == SeqsUpTo(S, n - 1)
         IN shorter \cup {Append(q, e) : q \in shorter, e \in S}

\* The documents the loader is run on.
Docs ==
    { [map_frame |-> f, home |-> h, waypoints_key |-> k, waypoints |-> w] :
        f \in Frames \cup {Absent},
        h \in HomeEntries \cup {NoEntry},
        k \in BOOLEAN,
        w \in SeqsUpTo(PoseEntries, MaxDocWaypoints) }

\* The document of the missions of Spec: NumWaypoints poses in the map frame.
DefaultDoc ==
    [map_frame |-> "map",
     home |-> [frame_id |-> "map", id |-> Absent],
     waypoints_key |-> TRUE,
     waypoints |-> [k \in 1..NumWaypoints |-> [frame_id |-> Absent, id |-> Absent]]]

\* ------------------------------------------------- peer, inner state
\* No handler of the route is between its two accesses of the shared global.
NoThread == "no_thread"
NoThreads == [control_state |-> NoThread, mission_state |-> NoThread]
\* The route has answered nothing yet.
NoReply == "no_reply"
NoReplies ==
    [control_state |-> NoReply, mission_state |-> NoReply,
     abort_mission |-> NoReply, return_home |-> NoReply]
\* CURRENT_MISSION_ID is None.
NoMission == [id |-> 0, status |-> "none", ended_at |-> 0]

VARIABLES
    pc,               \* position of the control loop
    i,                \* main: index of the waypoint being run
    attempt,          \* try_reach_waypoint: attempt
    imgIdx,           \* save_and_send_pictures_for_waypoint: img_idx
    cmd,              \* last value returned by check_control_command
    res,              \* main: res (result of try_reach_waypoint)
    home_res,         \* result of go_home_with_control
    label,            \* go_home_with_control: label
    mission_aborted,  \* main: mission_aborted
    force_go_home,    \* main: force_go_home
    goal,             \* motion stack: target and state of the last goal
    CONTROL_COMMAND,  \* peer: CONTROL_COMMAND
    MISSION_STATE,    \* peer: MISSION_STATE
    lastStatus,       \* last status handed to send_status
    last,             \* AmclMonitor.last
    window_start,     \* AmclMonitor.window_start
    winAge,           \* now - AmclMonitor.window_start_time, in ticks
    locElapsed,       \* now - start of wait_for_amcl_stable, in ticks
    nSubmit,          \* history: goToPose calls of the current run
    nCancel,          \* history: cancelTask calls of the current run
    nFailed,          \* history: failed goals of the current run
    homeCause,        \* history: why the current home return was entered
    postedPhase,      \* history: the loop's phase when the pending command
                      \* was posted ("none": no command is pending)
    doc,              \* the document in POSES_FILE (never written)
    threads,          \* peer: local value of each handler that is between
                      \* its read and its write of a shared global
    replies,          \* peer: what each route answered last
    current_mission   \* peer: MISSIONS[CURRENT_MISSION_ID]

vars == << pc, i, attempt, imgIdx, cmd, res, home_res, label, mission_aborted,
           force_go_home, goal, CONTROL_COMMAND, MISSION_STATE, lastStatus,
           last, window_start, winAge, locElapsed, nSubmit, nCancel, nFailed,
           homeCause, postedPhase, doc, threads, replies, current_mission >>

ctlVars == << pc, i, attempt, imgIdx, cmd, res, home_res, label,
              mission_aborted, force_go_home >>
amclVars == << last, window_start, winAge >>
histVars == << nSubmit, nCancel, nFailed, homeCause >>
peerVars == << threads, replies, current_mission >>

\* ------------------------------------------------------------ pose utils
\* quat_to_yaw: 2 * atan2(qz, qw), in degrees, from the half angle.
quat_to_yaw(h) == 2 * h

Abs(n) == IF n < 0 THEN 0 - n ELSE n

RECURSIVE WrapDown(_)
\* yaw_diff, first loop: while d > pi: d -= 2 pi
WrapDown(d) == IF d > 180 THEN WrapDown(d - 360) ELSE d

RECURSIVE WrapUp(_)
\* yaw_diff, second loop: while d < -pi: d += 2 pi
WrapUp(d) == IF d < 0 - 180 THEN WrapUp(d + 360) ELSE d

\* Variant of yaw_diff: the second loop is missing.
yaw_diff_NoWrapUp(a, b) == Abs(WrapDown(a - b))

yaw_diff(a, b) == Abs(WrapUp(WrapDown(a - b)))

\* dist is math.hypot; the model keeps its square (hypot <= r iff sq <= r*r).
dist_sq(ax, ay, bx, by) == (ax - bx) * (ax - bx) + (ay - by) * (ay - by)

\* ------------------------------------------------------------- loader
\* parse_pose's default id of the waypoint at list index n: f"wp{n}".
DefaultId(n) == "wp" \o ToString(n)

\* parse_pose: frame_id defaults to map_frame, id to default_id.
parse_pose(e, default_id, map_frame) ==
    [frame_id |-> IF e.frame_id = Absent THEN map_frame ELSE e.frame_id,
     pose_id |-> IF e.id = Absent THEN default_id ELSE e.id]

LoadError == [ok |-> FALSE]

\* Variant of load_waypoints_yaml: the frames of the poses are not compared
\* with map_frame.
load_waypoints_yaml_NoFrameCheck(d) ==
    LET map_frame == IF d.map_frame = Absent THEN "map" ELSE d.map_frame
        wps == IF d.waypoints_key THEN d.waypoints ELSE << >>
    IN IF d.home = NoEntry \/ Len(wps) = 0 THEN LoadError
       ELSE [ok |-> TRUE, map_frame |-> map_frame,
             home |-> parse_pose(d.home, "home", map_frame),
             targets |-> [k \in 1..Len(wps) |->
                            parse_pose(wps[k], DefaultId(k - 1), map_frame)]]

\* load_waypoints_yaml on a document that is a mapping with complete poses:
\* the WaypointSet, or LoadError where the code raises.
load_waypoints_yaml(d) ==
    LET map_frame == IF d.map_frame = Absent THEN "map" ELSE d.map_frame
        home == d.home
        wps == IF d.waypoints_key THEN d.waypoints ELSE << >>
    IN IF home = NoEntry THEN LoadError
       ELSE IF Len(wps) = 0 THEN LoadError
       ELSE LET home_xyq == parse_pose(home, "home", map_frame)
                wp_xyqs == [k \in 1..Len(wps) |->
                              parse_pose(wps[k], DefaultId(k - 1), map_frame)]
            IN IF \/ home_xyq.frame_id # map_frame
                  \/ \E k \in 1..Len(wps) : wp_xyqs[k].frame_id # map_frame
                 THEN LoadError
                 ELSE [ok |-> TRUE, map_frame |-> map_frame,
                       home |-> home_xyq, targets |-> wp_xyqs]

\* ---------------------------------------------------------- AmclMonitor
\* Variant of is_stable: the jump is looked at before the age of the window.
is_stable_JumpFirst(l, ws, age) ==
    IF l = NoPose \/ ws = NoPose THEN "no_amcl_pose_yet"
    ELSE IF ~(/\ dist_sq(l.x, l.y, ws.x, ws.y)
                   <= AMCL_MAX_POS_JUMP_CM * AMCL_MAX_POS_JUMP_CM
              /\ yaw_diff(quat_to_yaw(l.h), quat_to_yaw(ws.h))
                   <= AMCL_MAX_YAW_JUMP_DEG)
         THEN "unstable"
    ELSE IF age < StableWindow THEN "warming_up"
    ELSE "stable"

\* Variant of is_stable: only a monitor that never got a pose has no verdict;
\* a window that is not open counts as one that just opened.
is_stable_LastOnly(l, ws, age) ==
    IF l = NoPose THEN "no_amcl_pose_yet"
    ELSE IF ws = NoPose \/ age < StableWindow THEN "warming_up"
    ELSE IF /\ dist_sq(l.x, l.y, ws.x, ws.y)
                 <= AMCL_MAX_POS_JUMP_CM * AMCL_MAX_POS_JUMP_CM
            /\ yaw_diff(quat_to_yaw(l.h), quat_to_yaw(ws.h))
                 <= AMCL_MAX_YAW_JUMP_DEG
         THEN "stable"
         ELSE "unstable"

\* Variant of is_stable: both thresholds are exclusive.
is_stable_Strict(l, ws, age) ==
    IF l = NoPose \/ ws = NoPose THEN "no_amcl_pose_yet"
    ELSE IF age < StableWindow THEN "warming_up"
    ELSE IF /\ dist_sq(l.x, l.y, ws.x, ws.y)
                 < AMCL_MAX_POS_JUMP_CM * AMCL_MAX_POS_JUMP_CM
            /\ yaw_diff(quat_to_yaw(l.h), quat_to_yaw(ws.h))
                 < AMCL_MAX_YAW_JUMP_DEG
         THEN "stable"
         ELSE "unstable"

\* AmclMonitor.is_stable: the verdict for the monitor's fields and the age
\* of the window (now - window_start_time).
is_stable(l, ws, age) ==
    IF l = NoPose \/ ws = NoPose THEN "no_amcl_pose_yet"
    ELSE IF age < StableWindow THEN "warming_up"
    ELSE IF /\ dist_sq(l.x, l.y, ws.x, ws.y)
                 <= AMCL_MAX_POS_JUMP_CM * AMCL_MAX_POS_JUMP_CM
            /\ yaw_diff(quat_to_yaw(l.h), quat_to_yaw(ws.h))
                 <= AMCL_MAX_YAW_JUMP_DEG
         THEN "stable"
         ELSE "unstable"

\* Variant of update: the callback is cut short while it opens a window,
\* after the anchor is written and before the latest pose is.
update_Torn(l, ws, age, s) ==
    IF ws = NoPose THEN << l, s, 0 >> ELSE << s, ws, age >>

\* Variant of update: a pose outside the jump thresholds of the anchor
\* re-anchors the window at once.
update_ResetOnJump(l, ws, age, s) ==
    IF ws = NoPose THEN << s, s, 0 >>
    ELSE IF /\ dist_sq(s.x, s.y, ws.x, ws.y)
                 <= AMCL_MAX_POS_JUMP_CM * AMCL_MAX_POS_JUMP_CM
            /\ yaw_diff(quat_to_yaw(s.h), quat_to_yaw(ws.h))
                 <= AMCL_MAX_YAW_JUMP_DEG
         THEN << s, ws, age >>
         ELSE << s, s, 0 >>

\* AmclMonitor.update: the monitor after sample s arrives at the present
\* instant, as << last, window_start, winAge >>.
update(l, ws, age, s) ==
    IF ws = NoPose THEN << s, s, 0 >> ELSE << s, ws, age >>

\* AmclMonitor.reset_window, as << window_start, winAge >>.
reset_window == << NoPose, 0 >>

\* ------------------------------------------------------------------ peer
\* The outcome of one HTTP exchange: answered, lost before the peer's handler
\* ran, or handled by the peer with the answer lost (timeout 1.5 s).
Net == {"ok", "lost_request", "lost_response"}

\* Variant of control_state_after: the handler leaves the command as it is.
control_state_after_Sticky(net, cc) == cc

\* control_state: the peer's command after the handler ran (one-shot).
control_state_after(net, cc) == IF net = "lost_request" THEN cc ELSE "none"

\* Variant of check_control_command: the peer's value is taken whatever the
\* exchange did.
check_control_command_Raw(net, cc) == cc

\* check_control_command: the value the controller gets.
check_control_command(net, cc) ==
    IF net = "ok" /\ cc \in Commands THEN cc ELSE "none"

\* Variant of mission_state_after: the handler leaves the flag as it is.
mission_state_after_Sticky(net, ms) == ms

\* mission_state: the peer's flag after the handler ran (one-shot).
mission_state_after(net, ms) == IF net = "lost_request" THEN ms ELSE "idle"

\* Variant of poll_mission_state: an exchange that failed counts as a start.
poll_mission_state_FailStart(net, ms) == IF net = "ok" THEN ms ELSE "start"

\* poll_mission_state: the value the controller gets.
poll_mission_state(net, ms) == IF net = "ok" THEN ms ELSE "idle"

\* status_update: the peer's MISSION_STATE after a status post.
status_update_after(net, status, ms) ==
    IF net # "lost_request" /\ status = "mission_idle" THEN "idle" ELSE ms

\* send_status: hands the status to the peer, ignoring every failure.
send_status(net, status) ==
    /\ lastStatus' = status
    /\ MISSION_STATE' = status_update_after(net, status, MISSION_STATE)

\* ---------------------------------------------------------- motion stack
\* kind is "waypoint" (with its index) or "home" (index 0).
NoGoal == [kind |-> "none", index |-> 0, status |-> "none"]
\* goToPose: the submitted goal is in flight.
goToPose(kind, index) == [kind |-> kind, index |-> index, status |-> "active"]
\* Variant of cancelTask: the goal is left in flight.
cancelTask_NoOp(g) == g

\* cancelTask: an in-flight goal is cancelled, a finished one is unchanged.
cancelTask(g) == IF g.status = "active" THEN [g EXCEPT !.status = "canceled"] ELSE g
\* Variant of isTaskComplete: a goal that failed is not seen as complete.
isTaskComplete_SucceededOnly(g) == g.status = "succeeded"

\* isTaskComplete
isTaskComplete(g) == g.status # "active"
\* getResult() == TaskResult.SUCCEEDED
resultSucceeded(g) == g.status = "succeeded"

TypeOK ==
    /\ pc \in {"boot", "shutdown",
               "idle_enter", "idle_cmd", "idle_state", "initpose", "loc_begin",
               "loc_wait", "wp_attempt", "wp_poll", "wp_cmd", "wp_exhausted",
               "wp_result", "capture", "after_loop", "home_begin", "home_poll",
               "home_cmd", "home_result"}
    /\ i \in 0..(NumWaypoints - 1)
    /\ attempt \in 1..MAX_WAYPOINT_RETRIES
    /\ imgIdx \in 0..IMAGES_PER_WAYPOINT
    /\ cmd \in Commands
    /\ res \in {"none", "success", "abort", "go_home", "unreachable"}
    /\ home_res \in {"none", "success", "abort", "fail"}
    /\ label \in {"none", "normal", "idle_go_home"}
    /\ mission_aborted \in BOOLEAN
    /\ force_go_home \in BOOLEAN
    /\ goal.status \in {"none", "active", "succeeded", "failed", "canceled"}
    /\ goal.kind \in {"none", "waypoint", "home"}
    /\ goal.index \in 0..(NumWaypoints - 1)
    /\ CONTROL_COMMAND \in Commands
    /\ MISSION_STATE \in {"idle", "start"}
    /\ last \in Samples \cup {NoPose}
    /\ window_start \in Samples \cup {NoPose}
    /\ winAge \in 0..StableWindow
    /\ locElapsed \in 0..(LocTimeout + 1)
    /\ postedPhase \in {"none", "idle", "idle_home", "mission"}
    /\ (postedPhase = "none") <=> (CONTROL_COMMAND = "none")

Init ==
    /\ pc = "idle_enter"
    /\ i = 0
    /\ attempt = 1
    /\ imgIdx = 0
    /\ cmd = "none"
    /\ res = "none"
    /\ home_res = "none"
    /\ label = "none"
    /\ mission_aborted = FALSE
    /\ force_go_home = FALSE
    /\ goal = NoGoal
    /\ CONTROL_COMMAND = "none"
    /\ MISSION_STATE = "idle"
    /\ lastStatus = "none"
    /\ last = NoPose
    /\ window_start = NoPose
    /\ winAge = 0
    /\ locElapsed = 0
    /\ nSubmit = 0
    /\ nCancel = 0
    /\ nFailed = 0
    /\ homeCause = "none"
    /\ postedPhase = "none"
    /\ doc = DefaultDoc
    /\ threads = NoThreads
    /\ replies = NoReplies
    /\ current_mission = NoMission

\* -------------------------------------------------------------- startup
\* main, after Nav2 is active: load the document; on any exception send the
\* status pose_file_error, shut down and return, otherwise enter the loop.
MainLoad ==
    /\ pc = "boot"
    /\ IF load_waypoints_yaml(doc).ok
         THEN /\ pc' = "idle_enter"
              /\ UNCHANGED << lastStatus, MISSION_STATE >>
         ELSE /\ \E net \in Net : send_status(net, "pose_file_error")
              /\ pc' = "shutdown"
    /\ UNCHANGED << i, attempt, imgIdx, cmd, res, home_res, label,
                    mission_aborted, force_go_home, goal, CONTROL_COMMAND,
                    locElapsed >>
    /\ UNCHANGED amclVars
    /\ UNCHANGED histVars
    /\ UNCHANGED postedPhase
    /\ UNCHANGED doc
    /\ UNCHANGED peerVars

\* ------------------------------------------------------------ idle loop
\* idle_loop_wait_for_start_or_go_home, entry: send_status("mission_idle").
IdleEnter ==
    /\ pc = "idle_enter"
    /\ \E net \in Net : send_status(net, "mission_idle")
    /\ pc' = "idle_cmd"
    /\ UNCHANGED << i, attempt, imgIdx, cmd, res, home_res, label,
                    mission_aborted, force_go_home, goal, CONTROL_COMMAND,
                    locElapsed >>
    /\ UNCHANGED amclVars
    /\ UNCHANGED histVars
    /\ UNCHANGED postedPhase
    /\ UNCHANGED doc
    /\ UNCHANGED peerVars

\* Variant of IdleHomeLabel: the idle home return is run as a normal one.
IdleHomeLabel_Normal == "normal"

\* main: the label of the home return entered from the idle loop.
IdleHomeLabel == "idle_go_home"

\* Idle loop, first half of an iteration: poll the command; go_home leaves
\* the loop and main calls go_home_with_control(label = "idle_go_home");
\* abort is dropped.
IdleCheckCommand ==
    /\ pc = "idle_cmd"
    /\ \E net \in Net :
         /\ cmd' = check_control_command(net, CONTROL_COMMAND)
         /\ CONTROL_COMMAND' = control_state_after(net, CONTROL_COMMAND)
    /\ IF cmd' = "go_home"
         THEN /\ \E net \in Net : send_status(net, "return_home_requested")
              /\ pc' = "home_begin"
              /\ label' = IdleHomeLabel
              /\ homeCause' = "idle"
         ELSE /\ pc' = "idle_state"
              /\ UNCHANGED << label, homeCause, lastStatus, MISSION_STATE >>
    /\ UNCHANGED << i, attempt, imgIdx, res, home_res, mission_aborted,
                    force_go_home, goal, locElapsed, nSubmit, nCancel, nFailed >>
    /\ UNCHANGED amclVars
    /\ postedPhase' = IF CONTROL_COMMAND' = "none" THEN "none" ELSE postedPhase
    /\ UNCHANGED doc
    /\ UNCHANGED peerVars

\* Idle loop, second half: poll the mission flag; start leaves the loop,
\* otherwise spin once and iterate.
IdlePollStart ==
    /\ pc = "idle_state"
    /\ \E net \in Net :
         LET state == poll_mission_state(net, MISSION_STATE)
             after == mission_state_after(net, MISSION_STATE)
         IN IF state = "start"
              THEN /\ \E net2 \in Net :
                        /\ lastStatus' = "mission_started"
                        /\ MISSION_STATE' =
                             status_update_after(net2, "mission_started", after)
                   /\ pc' = "initpose"
              ELSE /\ MISSION_STATE' = after
                   /\ pc' = "idle_cmd"
                   /\ UNCHANGED lastStatus
    /\ cmd' = "none"
    /\ UNCHANGED << i, attempt, imgIdx, res, home_res, label, mission_aborted,
                    force_go_home, goal, CONTROL_COMMAND, locElapsed >>
    /\ UNCHANGED amclVars
    /\ UNCHANGED histVars
    /\ UNCHANGED postedPhase
    /\ UNCHANGED doc
    /\ UNCHANGED peerVars

\* ---------------------------------------------------------- mission start
\* main: publish /initialpose from HOME (SET_INITIALPOSE_FROM_HOME_ON_START)
\* and spin ten times.
PublishInitialPose ==
    /\ pc = "initpose"
    /\ \E net \in Net : send_status(net, "initialpose_published_from_home")
    /\ pc' = "loc_begin"
    /\ UNCHANGED << i, attempt, imgIdx, cmd, res, home_res, label,
                    mission_aborted, force_go_home, goal, CONTROL_COMMAND,
                    locElapsed >>
    /\ UNCHANGED amclVars
    /\ UNCHANGED histVars
    /\ UNCHANGED postedPhase
    /\ UNCHANGED doc
    /\ UNCHANGED peerVars

\* Variant of LocBegin: the wait keeps the window it finds.
LocBegin_NoReset ==
    /\ pc = "loc_begin"
    /\ \E net \in Net : send_status(net, "waiting_for_localization")
    /\ locElapsed' = 0
    /\ pc' = "loc_wait"
    /\ UNCHANGED << i, attempt, imgIdx, cmd, res, home_res, label,
                    mission_aborted, force_go_home, goal, CONTROL_COMMAND >>
    /\ UNCHANGED amclVars
    /\ UNCHANGED histVars
    /\ UNCHANGED postedPhase
    /\ UNCHANGED doc
    /\ UNCHANGED peerVars

\* wait_for_amcl_stable, entry: status, reset_window, start = now.
LocBegin ==
    /\ pc = "loc_begin"
    /\ \E net \in Net : send_status(net, "waiting_for_localization")
    /\ window_start' = reset_window[1]
    /\ winAge' = reset_window[2]
    /\ locElapsed' = 0
    /\ pc' = "loc_wait"
    /\ UNCHANGED << i, attempt, imgIdx, cmd, res, home_res, label,
                    mission_aborted, force_go_home, goal, CONTROL_COMMAND, last >>
    /\ UNCHANGED histVars
    /\ UNCHANGED postedPhase
    /\ UNCHANGED doc
    /\ UNCHANGED peerVars

\* Variant of LocTimedOut: the wait has no hard timeout.
LocTimedOut_Never(elapsed) == FALSE

\* wait_for_amcl_stable: the hard timeout test.
LocTimedOut(elapsed) == elapsed > LocTimeout

\* Variant of ResetsOn: every verdict that is not stable re-anchors.
ResetsOn_AnyFailure(reason) == reason # "stable"

\* wait_for_amcl_stable: `if "unstable" in reason: amcl.reset_window()`.
ResetsOn(reason) == reason = "unstable"

\* wait_for_amcl_stable, one iteration: spin_once runs at most one pose
\* callback, then is_stable decides; an unstable verdict resets the window;
\* a stable verdict or the timeout ends the wait and main starts the
\* waypoint loop (mission_aborted = force_go_home = False, i = 0).
LocWaitOn(S) ==
    /\ pc = "loc_wait"
    /\ \E s \in S \cup {NoPose} :
         LET m == IF s = NoPose THEN << last, window_start, winAge >>
                  ELSE update(last, window_start, winAge, s)
             verdict == is_stable(m[1], m[2], m[3])
         IN /\ last' = m[1]
            /\ IF verdict = "stable"
                 THEN /\ \E net \in Net : send_status(net, "localization_ok")
                      /\ window_start' = m[2]
                      /\ winAge' = m[3]
                      /\ pc' = "wp_attempt"
                 ELSE /\ IF ResetsOn(verdict)
                           THEN /\ window_start' = reset_window[1]
                                /\ winAge' = reset_window[2]
                           ELSE /\ window_start' = m[2]
                                /\ winAge' = m[3]
                      /\ IF LocTimedOut(locElapsed)
                           THEN /\ \E net \in Net :
                                     send_status(net, "localization_timeout")
                                /\ pc' = "wp_attempt"
                           ELSE /\ pc' = "loc_wait"
                                /\ UNCHANGED << lastStatus, MISSION_STATE >>
    /\ IF pc' = "wp_attempt"
         THEN /\ mission_aborted' = FALSE
              /\ force_go_home' = FALSE
              /\ i' = 0
              /\ attempt' = 1
              /\ locElapsed' = 0
         ELSE UNCHANGED << mission_aborted, force_go_home, i, attempt, locElapsed >>
    /\ UNCHANGED << imgIdx, cmd, res, home_res, label, goal, CONTROL_COMMAND >>
    /\ UNCHANGED histVars
    /\ UNCHANGED postedPhase
    /\ UNCHANGED doc
    /\ UNCHANGED peerVars

\* The wait of a mission, fed from the poses of the mission model.
LocWaitTick == LocWaitOn(Samples)

\* ------------------------------------------------------- waypoint runner
\* try_reach_waypoint, head of the attempt loop: status, clearAllCostmaps
\* (best effort), goToPose.
WpAttempt ==
    /\ pc = "wp_attempt"
    /\ \E net \in Net : send_status(net, "moving_to_waypoint")
    /\ goal' = goToPose("waypoint", i)
    /\ nSubmit' = nSubmit + 1
    /\ pc' = "wp_poll"
    /\ UNCHANGED << i, attempt, imgIdx, cmd, res, home_res, label,
                    mission_aborted, force_go_home, CONTROL_COMMAND, locElapsed,
                    nCancel, nFailed, homeCause >>
    /\ UNCHANGED amclVars
    /\ UNCHANGED postedPhase
    /\ UNCHANGED doc
    /\ UNCHANGED peerVars

\* Variant of HasNextAttempt: range(1, MAX_WAYPOINT_RETRIES), one attempt short.
HasNextAttempt_OffByOne(a) == a + 1 < MAX_WAYPOINT_RETRIES

\* try_reach_waypoint: for attempt in range(1, MAX_WAYPOINT_RETRIES + 1).
HasNextAttempt(a) == a < MAX_WAYPOINT_RETRIES

\* try_reach_waypoint, the loop test `while not navigator.isTaskComplete()`
\* and, when the goal is complete, the code after the loop: a succeeded goal
\* ends the run, a failed one starts the next attempt or exhausts the run.
WpPoll ==
    /\ pc = "wp_poll"
    /\ IF ~isTaskComplete(goal)
         THEN /\ pc' = "wp_cmd"
              /\ UNCHANGED << attempt, res, lastStatus, MISSION_STATE, nFailed >>
         ELSE IF resultSucceeded(goal)
           THEN /\ \E net \in Net : send_status(net, "waypoint_reached")
                /\ res' = "success"
                /\ pc' = "wp_result"
                /\ UNCHANGED << attempt, nFailed >>
           ELSE /\ \E net \in Net : send_status(net, "waypoint_failed_attempt")
                /\ nFailed' = nFailed + 1
                /\ IF HasNextAttempt(attempt)
                     THEN /\ attempt' = attempt + 1
                          /\ pc' = "wp_attempt"
                     ELSE /\ pc' = "wp_exhausted"
                          /\ UNCHANGED attempt
                /\ UNCHANGED res
    /\ UNCHANGED << i, imgIdx, cmd, home_res, label, mission_aborted,
                    force_go_home, goal, CONTROL_COMMAND, locElapsed, nSubmit,
                    nCancel, homeCause >>
    /\ UNCHANGED amclVars
    /\ UNCHANGED postedPhase
    /\ UNCHANGED doc
    /\ UNCHANGED peerVars

\* try_reach_waypoint, after the attempt loop: the waypoint is unreachable.
WpExhausted ==
    /\ pc = "wp_exhausted"
    /\ \E net \in Net : send_status(net, "waypoint_unreachable")
    /\ res' = "unreachable"
    /\ pc' = "wp_result"
    /\ UNCHANGED << i, attempt, imgIdx, cmd, home_res, label, mission_aborted,
                    force_go_home, goal, CONTROL_COMMAND, locElapsed >>
    /\ UNCHANGED amclVars
    /\ UNCHANGED histVars
    /\ UNCHANGED postedPhase
    /\ UNCHANGED doc
    /\ UNCHANGED peerVars

\* Variant of WpHonours: the abort branch of the poll loop is missing.
WpHonours_GoHomeOnly(c) == c = "go_home"

\* try_reach_waypoint, body of the poll loop: which command ends the run.
WpHonours(c) == c \in {"abort", "go_home"}

\* try_reach_waypoint, body of the poll loop: poll the command; abort and
\* go_home cancel the goal and end the run, otherwise spin once.
WpCheckCommand ==
    /\ pc = "wp_cmd"
    /\ \E net \in Net :
         /\ cmd' = check_control_command(net, CONTROL_COMMAND)
         /\ CONTROL_COMMAND' = control_state_after(net, CONTROL_COMMAND)
    /\ IF WpHonours(cmd')
         THEN /\ goal' = cancelTask(goal)
              /\ nCancel' = nCancel + 1
              /\ \E net \in Net :
                   send_status(net, IF cmd' = "abort"
                                      THEN "mission_aborted_by_operator"
                                      ELSE "return_home_requested")
              /\ res' = cmd'
              /\ pc' = "wp_result"
         ELSE /\ pc' = "wp_poll"
              /\ UNCHANGED << goal, nCancel, lastStatus, MISSION_STATE, res >>
    /\ UNCHANGED << i, attempt, imgIdx, home_res, label, mission_aborted,
                    force_go_home, locElapsed, nSubmit, nFailed, homeCause >>
    /\ UNCHANGED amclVars
    /\ postedPhase' = IF CONTROL_COMMAND' = "none" THEN "none" ELSE postedPhase
    /\ UNCHANGED doc
    /\ UNCHANGED peerVars

\* ------------------------------------------------------------ main loop
\* Variant of HasNextWaypoint: the loop stops one waypoint short.
HasNextWaypoint_SkipLast(k) == k + 2 < NumWaypoints

\* main: for i, (wp_id, wp_pose) in enumerate(waypoints).
HasNextWaypoint(k) == k + 1 < NumWaypoints

\* Variant of Captures: images are taken after every run that did not end
\* on a command.
Captures_Unreachable(r) == r \in {"success", "unreachable"}

\* main: `if res == "success": save_and_send_pictures_for_waypoint(...)`.
Captures(r) == r = "success"

\* main, the dispatch on res inside the waypoint loop: success captures
\* images, abort and go_home set their flag and break, unreachable goes on.
MainWpResult ==
    /\ pc = "wp_result"
    /\ CASE Captures(res) ->
              /\ pc' = "capture"
              /\ imgIdx' = 0
              /\ UNCHANGED << i, attempt, mission_aborted, force_go_home >>
         [] res = "abort" ->
              /\ mission_aborted' = TRUE
              /\ pc' = "after_loop"
              /\ UNCHANGED << i, attempt, imgIdx, force_go_home >>
         [] res = "go_home" ->
              /\ force_go_home' = TRUE
              /\ pc' = "after_loop"
              /\ UNCHANGED << i, attempt, imgIdx, mission_aborted >>
         [] OTHER ->
              /\ IF HasNextWaypoint(i)
                   THEN /\ i' = i + 1
                        /\ attempt' = 1
                        /\ pc' = "wp_attempt"
                   ELSE /\ pc' = "after_loop"
                        /\ UNCHANGED << i, attempt >>
              /\ UNCHANGED << imgIdx, mission_aborted, force_go_home >>
    /\ cmd' = "none"
    /\ nSubmit' = 0
    /\ nCancel' = 0
    /\ nFailed' = 0
    /\ UNCHANGED << res, home_res, label, goal, CONTROL_COMMAND, MISSION_STATE,
                    lastStatus, locElapsed, homeCause >>
    /\ UNCHANGED amclVars
    /\ UNCHANGED postedPhase
    /\ UNCHANGED doc
    /\ UNCHANGED peerVars

\* save_and_send_pictures_for_waypoint, one image: capture_latest_image
\* spins until a frame arrives or CAMERA_TIMEOUT_SEC passes, then the upload
\* (best effort); after the last image main goes on with the next waypoint.
CaptureImage ==
    /\ pc = "capture"
    /\ IF imgIdx + 1 < IMAGES_PER_WAYPOINT
         THEN /\ imgIdx' = imgIdx + 1
              /\ UNCHANGED << pc, i, attempt >>
         ELSE /\ imgIdx' = 0
              /\ IF HasNextWaypoint(i)
                   THEN /\ i' = i + 1
                        /\ attempt' = 1
                        /\ pc' = "wp_attempt"
                   ELSE /\ pc' = "after_loop"
                        /\ UNCHANGED << i, attempt >>
    /\ UNCHANGED << cmd, res, home_res, label, mission_aborted, force_go_home,
                    goal, CONTROL_COMMAND, MISSION_STATE, lastStatus, locElapsed >>
    /\ UNCHANGED amclVars
    /\ UNCHANGED histVars
    /\ UNCHANGED postedPhase
    /\ UNCHANGED doc
    /\ UNCHANGED peerVars

\* Variant of AbortedStaysIdle: the test is missing, every mission ends with
\* a home return.
AbortedStaysIdle_Never(ma, fgh) == FALSE

\* Variant of AbortedStaysIdle: `if mission_aborted or force_go_home`.
AbortedStaysIdle_Either(ma, fgh) == ma \/ fgh

\* main: `if mission_aborted and not force_go_home: continue`.
AbortedStaysIdle(ma, fgh) == ma /\ ~fgh

\* Variant of MissionHomeLabel: a forced go-home gets a label of its own.
MissionHomeLabel_Forced(fgh) == IF fgh THEN "forced" ELSE "normal"

\* main: the label handed to go_home_with_control after the waypoint loop.
MissionHomeLabel(fgh) == "normal"

\* main, after the waypoint loop: an aborted mission goes back to the idle
\* loop, every other one returns home.
AfterLoop ==
    /\ pc = "after_loop"
    /\ IF AbortedStaysIdle(mission_aborted, force_go_home)
         THEN /\ pc' = "idle_enter"
              /\ UNCHANGED << label, homeCause >>
         ELSE /\ pc' = "home_begin"
              /\ label' = MissionHomeLabel(force_go_home)
              /\ homeCause' = IF force_go_home THEN "forced" ELSE "finished"
    /\ res' = "none"
    /\ UNCHANGED << i, attempt, imgIdx, cmd, home_res, mission_aborted,
                    force_go_home, goal, CONTROL_COMMAND, MISSION_STATE,
                    lastStatus, locElapsed, nSubmit, nCancel, nFailed >>
    /\ UNCHANGED amclVars
    /\ UNCHANGED postedPhase
    /\ UNCHANGED doc
    /\ UNCHANGED peerVars

\* ------------------------------------------------------------ home return
\* go_home_with_control, entry: status, clearAllCostmaps (best effort),
\* goToPose(home_pose).
HomeBegin ==
    /\ pc = "home_begin"
    /\ \E net \in Net : send_status(net, "returning_home")
    /\ goal' = goToPose("home", 0)
    /\ nSubmit' = nSubmit + 1
    /\ cmd' = "none"
    /\ pc' = "home_poll"
    /\ UNCHANGED << i, attempt, imgIdx, res, home_res, label, mission_aborted,
                    force_go_home, CONTROL_COMMAND, locElapsed, nCancel, nFailed,
                    homeCause >>
    /\ UNCHANGED amclVars
    /\ UNCHANGED postedPhase
    /\ UNCHANGED doc
    /\ UNCHANGED peerVars

\* Variant of CompletionStatus: the status is built from the label.
CompletionStatus_FromLabel(lbl) == "mission_complete_" \o lbl

\* Variant of CompletionStatus: the label is not looked at.
CompletionStatus_Plain(lbl) == "mission_complete"

\* go_home_with_control: the status of a home return that succeeded.
CompletionStatus(lbl) ==
    IF lbl = "normal" THEN "mission_complete" ELSE "mission_complete_after_abort"

\* go_home_with_control, the loop test and, when the goal is complete, the
\* code after the loop.
HomePoll ==
    /\ pc = "home_poll"
    /\ IF ~isTaskComplete(goal)
         THEN /\ pc' = "home_cmd"
              /\ UNCHANGED << home_res, lastStatus, MISSION_STATE >>
         ELSE /\ IF resultSucceeded(goal)
                   THEN /\ \E net \in Net : send_status(net, CompletionStatus(label))
                        /\ home_res' = "success"
                   ELSE /\ \E net \in Net :
                             send_status(net, "home_unreachable_during_mission")
                        /\ home_res' = "fail"
              /\ pc' = "home_result"
    /\ UNCHANGED << i, attempt, imgIdx, cmd, res, label, mission_aborted,
                    force_go_home, goal, CONTROL_COMMAND, locElapsed >>
    /\ UNCHANGED amclVars
    /\ UNCHANGED histVars
    /\ UNCHANGED postedPhase
    /\ UNCHANGED doc
    /\ UNCHANGED peerVars

\* Variant of HomeHonours: go_home ends the home return as abort does.
HomeHonours_Both(c) == c \in {"abort", "go_home"}

\* go_home_with_control, body of the poll loop: which command ends the return.
HomeHonours(c) == c = "abort"

\* go_home_with_control, body of the poll loop: poll the command; abort
\* cancels the goal and ends the return, otherwise spin once.
HomeCheckCommand ==
    /\ pc = "home_cmd"
    /\ \E net \in Net :
         /\ cmd' = check_control_command(net, CONTROL_COMMAND)
         /\ CONTROL_COMMAND' = control_state_after(net, CONTROL_COMMAND)
    /\ IF HomeHonours(cmd')
         THEN /\ goal' = cancelTask(goal)
              /\ nCancel' = nCancel + 1
              /\ \E net \in Net : send_status(net, "mission_aborted_by_operator")
              /\ home_res' = "abort"
              /\ pc' = "home_result"
         ELSE /\ pc' = "home_poll"
              /\ UNCHANGED << goal, nCancel, lastStatus, MISSION_STATE, home_res >>
    /\ UNCHANGED << i, attempt, imgIdx, res, label, mission_aborted,
                    force_go_home, locElapsed, nSubmit, nFailed, homeCause >>
    /\ UNCHANGED amclVars
    /\ postedPhase' = IF CONTROL_COMMAND' = "none" THEN "none" ELSE postedPhase
    /\ UNCHANGED doc
    /\ UNCHANGED peerVars

\* main, after go_home_with_control returned: every result of the home
\* return (from the idle loop or after a mission) leads to the next
\* iteration of the outer loop.  The frame of the call is dropped.
HomeResult ==
    /\ pc = "home_result"
    /\ pc' = "idle_enter"
    /\ home_res' = "none"
    /\ label' = "none"
    /\ cmd' = "none"
    /\ res' = "none"
    /\ homeCause' = "none"
    /\ nSubmit' = 0
    /\ nCancel' = 0
    /\ UNCHANGED << i, attempt, imgIdx, mission_aborted, force_go_home, goal,
                    CONTROL_COMMAND, MISSION_STATE, lastStatus, locElapsed,
                    nFailed >>
    /\ UNCHANGED amclVars
    /\ UNCHANGED postedPhase
    /\ UNCHANGED doc
    /\ UNCHANGED peerVars

\* ------------------------------------------------------------ environment
\* Where the control loop is: in the idle loop, in a home return entered
\* from the idle loop, or in a mission (from the observed start to the end
\* of its home return).
Phase(p, lbl) ==
    IF p \in {"idle_enter", "idle_cmd", "idle_state"} THEN "idle"
    ELSE IF p \in {"home_begin", "home_poll", "home_cmd", "home_result"}
              /\ lbl = "idle_go_home" THEN "idle_home"
    ELSE "mission"

\* start_mission: the operator requests a mission.
OperatorStart ==
    /\ MISSION_STATE' = "start"
    /\ UNCHANGED << goal, CONTROL_COMMAND, lastStatus, locElapsed >>
    /\ UNCHANGED ctlVars
    /\ UNCHANGED amclVars
    /\ UNCHANGED histVars
    /\ UNCHANGED postedPhase
    /\ UNCHANGED doc
    /\ UNCHANGED peerVars

\* abort_mission: the operator posts abort.
OperatorAbort ==
    /\ CONTROL_COMMAND' = "abort"
    /\ UNCHANGED << goal, MISSION_STATE, lastStatus, locElapsed >>
    /\ UNCHANGED ctlVars
    /\ UNCHANGED amclVars
    /\ UNCHANGED histVars
    /\ postedPhase' = Phase(pc, label)
    /\ UNCHANGED doc
    /\ UNCHANGED peerVars

\* return_home: the operator posts go_home (the command is stored before
\* the handler builds its response).
OperatorGoHome ==
    /\ CONTROL_COMMAND' = "go_home"
    /\ UNCHANGED << goal, MISSION_STATE, lastStatus, locElapsed >>
    /\ UNCHANGED ctlVars
    /\ UNCHANGED amclVars
    /\ UNCHANGED histVars
    /\ postedPhase' = Phase(pc, label)
    /\ UNCHANGED doc
    /\ UNCHANGED peerVars

\* The motion stack finishes the goal in flight: it reached the pose.
GoalSucceeds ==
    /\ goal.status = "active"
    /\ goal' = [goal EXCEPT !.status = "succeeded"]
    /\ UNCHANGED << CONTROL_COMMAND, MISSION_STATE, lastStatus, locElapsed >>
    /\ UNCHANGED ctlVars
    /\ UNCHANGED amclVars
    /\ UNCHANGED histVars
    /\ UNCHANGED postedPhase
    /\ UNCHANGED doc
    /\ UNCHANGED peerVars

\* The motion stack finishes the goal in flight: it gave up.
GoalFails ==
    /\ goal.status = "active"
    /\ goal' = [goal EXCEPT !.status = "failed"]
    /\ UNCHANGED << CONTROL_COMMAND, MISSION_STATE, lastStatus, locElapsed >>
    /\ UNCHANGED ctlVars
    /\ UNCHANGED amclVars
    /\ UNCHANGED histVars
    /\ UNCHANGED postedPhase
    /\ UNCHANGED doc
    /\ UNCHANGED peerVars

\* The /amcl_pose subscription callback (amcl.update) run by a spin outside
\* wait_for_amcl_stable: every other phase of the loop spins as well.
AmclCallback ==
    /\ pc # "loc_wait"
    /\ \E s \in Samples :
         LET m == update(last, window_start, winAge, s)
         IN /\ last' = m[1]
            /\ window_start' = m[2]
            /\ winAge' = m[3]
    /\ UNCHANGED << goal, CONTROL_COMMAND, MISSION_STATE, lastStatus, locElapsed >>
    /\ UNCHANGED ctlVars
    /\ UNCHANGED histVars
    /\ UNCHANGED postedPhase
    /\ UNCHANGED doc
    /\ UNCHANGED peerVars

\* One tick of the clock: the open window and the running wait grow older.
Tick ==
    /\ \/ (window_start # NoPose /\ winAge < StableWindow)
       \/ (pc = "loc_wait" /\ locElapsed <= LocTimeout)
    /\ winAge' = IF window_start # NoPose /\ winAge < StableWindow
                   THEN winAge + 1 ELSE winAge
    /\ locElapsed' = IF pc = "loc_wait" /\ locElapsed <= LocTimeout
                       THEN locElapsed + 1 ELSE locElapsed
    /\ UNCHANGED << goal, CONTROL_COMMAND, MISSION_STATE, lastStatus, last,
                    window_start >>
    /\ UNCHANGED ctlVars
    /\ UNCHANGED histVars
    /\ UNCHANGED postedPhase
    /\ UNCHANGED doc
    /\ UNCHANGED peerVars

Next ==
    \/ IdleEnter
    \/ IdleCheckCommand
    \/ IdlePollStart
    \/ PublishInitialPose
    \/ LocBegin
    \/ LocWaitTick
    \/ WpAttempt
    \/ WpPoll
    \/ WpExhausted
    \/ WpCheckCommand
    \/ MainWpResult
    \/ CaptureImage
    \/ AfterLoop
    \/ HomeBegin
    \/ HomePoll
    \/ HomeCheckCommand
    \/ HomeResult
    \/ OperatorStart
    \/ OperatorAbort
    \/ OperatorGoHome
    \/ GoalSucceeds
    \/ GoalFails
    \/ AmclCallback
    \/ Tick

Spec == Init /\ [][Next]_vars

\* ================================================================ claims
WpRunPcs == {"wp_attempt", "wp_poll", "wp_cmd", "wp_exhausted"}
HomePcs == {"home_begin", "home_poll", "home_cmd", "home_result"}

\* C1: once a waypoint run has observed abort (its status is the last one
\* emitted and no home return is running), the controller is only at the
\* return of the run, at the test after the waypoint loop or entering the
\* idle loop, the cancelled waypoint goal is the last goal and nothing is in
\* flight: no home goal and no goal for a later waypoint is submitted
\* between the abort and Idle.
C1_AbortReturnsToIdleWithoutGoal ==
    (lastStatus = "mission_aborted_by_operator" /\ goal.kind = "waypoint")
        => /\ pc \in {"wp_result", "after_loop", "idle_enter"}
           /\ goal.status # "active"
           /\ goal.index = i
           /\ pc = "wp_result" => (res = "abort" /\ nSubmit = attempt)
           /\ pc # "wp_result" => (mission_aborted /\ nSubmit = 0)

C1_Witness ==
    /\ pc = "idle_enter"
    /\ lastStatus = "mission_aborted_by_operator"
    /\ mission_aborted
    /\ goal = [kind |-> "waypoint", index |-> 1, status |-> "canceled"]

\* C2: a go_home reported to the idle loop leads to the home-return
\* procedure with label idle_go_home, that procedure submits the home goal,
\* and whatever the home return's result is the controller next enters the
\* idle loop.
C2_IdleGoHomeAlwaysServed ==
    [][ /\ (pc = "idle_cmd" /\ cmd' = "go_home")
            => (pc' = "home_begin" /\ label' = "idle_go_home")
        /\ (pc = "home_begin" /\ pc' # pc)
            => (goal' = goToPose("home", 0) /\ pc' = "home_poll" /\ label' = label)
        /\ (pc \in {"home_poll", "home_cmd"} /\ pc' # pc)
            => (pc' \in {"home_poll", "home_cmd", "home_result"} /\ label' = label)
        /\ (pc = "home_result" /\ pc' # pc) => pc' = "idle_enter" ]_vars

C2_Witness ==
    /\ pc = "home_result"
    /\ label = "idle_go_home"
    /\ home_res = "abort"
    /\ mission_aborted
    /\ goal.kind = "home"

\* C3: once a waypoint run has observed go_home, the waypoint goal has been
\* cancelled exactly once, the run returns go_home, and until the home goal
\* is submitted the controller is only on the path to the home return: no
\* goal for this or a later waypoint is submitted in that mission.
C3_GoHomeDuringWaypointGoesHome ==
    /\ (lastStatus = "return_home_requested")
         => /\ pc \in {"wp_result", "after_loop", "home_begin"}
            /\ goal.status # "active"
            /\ pc = "wp_result" => (res = "go_home" /\ nCancel = 1)
            /\ pc = "after_loop" => force_go_home
            /\ pc = "home_begin" => homeCause \in {"forced", "idle"}
            /\ homeCause # "idle" => (goal.kind = "waypoint" /\ goal.index = i)
    /\ (force_go_home /\ Phase(pc, label) = "mission")
         => pc \in {"after_loop"} \cup HomePcs \cup {"initpose", "loc_begin", "loc_wait"}
    /\ (pc \in WpRunPcs) => cmd = "none"

C3_Witness ==
    /\ pc = "home_poll"
    /\ homeCause = "forced"
    /\ force_go_home
    /\ goal = goToPose("home", 0)
    /\ i = 0

\* C4: a waypoint run is over as soon as its poll returns abort (the command
\* is never seen by a run that goes on), on any attempt; the run has then
\* called cancel exactly once, no goal is in flight, and it has submitted
\* exactly one goal per attempt begun, none after the abort.
C4_AbortEndsRunCancelOnce ==
    /\ (pc \in WpRunPcs) => (cmd # "abort" /\ nCancel = 0)
    /\ (pc = "wp_result")
         => /\ (res = "abort") <=> (cmd = "abort")
            /\ (res = "abort")
                 => /\ nCancel = 1
                    /\ goal.status # "active"
                    /\ nSubmit = attempt
                    /\ lastStatus = "mission_aborted_by_operator"

C4_Witness ==
    /\ pc = "wp_result"
    /\ res = "abort"
    /\ attempt = 2
    /\ nCancel = 1
    /\ goal.status = "canceled"

\* C5: a waypoint run submits between 1 and MAX_WAYPOINT_RETRIES goals, one
\* per attempt; it returns unreachable exactly when MAX_WAYPOINT_RETRIES
\* goals failed, and a run in which every submitted goal failed and no
\* command was observed returns unreachable after exactly
\* MAX_WAYPOINT_RETRIES submissions.
C5_UnreachableAfterExactlyMaxRetries ==
    /\ (pc \in {"wp_poll", "wp_cmd"})
         => (nSubmit = attempt /\ nFailed = attempt - 1)
    /\ (pc = "wp_attempt") => (nSubmit = attempt - 1 /\ nFailed = attempt - 1)
    /\ (pc \in WpRunPcs \cup {"wp_result"}) => nSubmit <= MAX_WAYPOINT_RETRIES
    /\ (pc = "wp_result")
         => /\ nSubmit \in 1..MAX_WAYPOINT_RETRIES
            /\ (res = "unreachable") <=> (nFailed = MAX_WAYPOINT_RETRIES)
            /\ (res = "unreachable") => nSubmit = MAX_WAYPOINT_RETRIES
            /\ (nFailed = nSubmit /\ cmd = "none")
                 => (res = "unreachable" /\ nSubmit = MAX_WAYPOINT_RETRIES)

C5_Witness ==
    /\ pc = "wp_result"
    /\ res = "unreachable"
    /\ nSubmit = MAX_WAYPOINT_RETRIES
    /\ nFailed = MAX_WAYPOINT_RETRIES
    /\ goal.status = "failed"

\* C6 (as stated): at a poll tick of a waypoint run at which the goal has
\* completed and abort or go_home is pending on the peer, the run returns
\* that command and the peer's command is consumed.
C6_CommandCheckedBeforeCompletion ==
    [][ (pc = "wp_poll" /\ pc' # pc /\ goal.status # "active"
            /\ CONTROL_COMMAND \in {"abort", "go_home"})
          => (res' = CONTROL_COMMAND /\ CONTROL_COMMAND' = "none") ]_vars

\* C6 (amended): in each poll tick of a waypoint run the goal's completion
\* is tested first and the command is polled only if the goal is not
\* complete.  At a tick at which the goal has completed the run polls
\* nothing and cancels nothing: a pending command stays pending on the peer,
\* a succeeded goal gives success and a failed one a failed attempt.  At a
\* tick at which the goal is not complete, a polled abort or go_home ends
\* the run with that result.
C6_CompletionTestedBeforeCommand ==
    [][ /\ (pc = "wp_poll" /\ pc' # pc)
            => /\ CONTROL_COMMAND' = CONTROL_COMMAND
               /\ cmd' = cmd
               /\ nCancel' = nCancel
               /\ goal' = goal
               /\ goal.status = "active" => (pc' = "wp_cmd" /\ res' = res)
               /\ goal.status = "succeeded"
                    => (pc' = "wp_result" /\ res' = "success")
               /\ goal.status \notin {"active", "succeeded"}
                    => /\ pc' \in {"wp_attempt", "wp_exhausted"}
                       /\ nFailed' = nFailed + 1
                       /\ lastStatus' = "waypoint_failed_attempt"
        /\ (pc = "wp_cmd" /\ pc' # pc)
            => IF cmd' \in {"abort", "go_home"}
                 THEN pc' = "wp_result" /\ res' = cmd'
                 ELSE pc' = "wp_poll" /\ res' = res ]_vars

C6_Witness ==
    /\ pc = "wp_result"
    /\ res = "success"
    /\ cmd = "none"
    /\ nCancel = 0
    /\ CONTROL_COMMAND = "abort"
    /\ postedPhase = "mission"

\* C7 (as stated): once a mission has started, a command posted during the
\* mission is observed before any new motion goal is submitted: no goal is
\* submitted while such a command is pending on the peer.
C7_CommandObservedBeforeNextGoal ==
    [][ (nSubmit' = nSubmit + 1)
          => ~(CONTROL_COMMAND \in {"abort", "go_home"}
               /\ postedPhase = "mission") ]_vars

\* C8 (as stated): a home return that succeeds emits
\* mission_complete_after_abort if it was entered by a go_home observed
\* during waypoint execution, and mission_complete if it was entered after
\* all waypoints were traversed.
C8_ForcedReturnEmitsAfterAbort ==
    (pc = "home_result" /\ home_res = "success")
        => /\ homeCause = "forced" => lastStatus = "mission_complete_after_abort"
           /\ homeCause = "finished" => lastStatus = "mission_complete"

\* C8 (amended): a home return entered from a mission runs with label
\* normal and, when it succeeds, emits mission_complete, both after the
\* traversal of all waypoints and after a go_home observed during waypoint
\* execution; mission_complete_after_abort is emitted only by a home return
\* entered from the idle loop.
C8_MissionReturnEmitsMissionComplete ==
    /\ (pc \in HomePcs /\ homeCause \in {"forced", "finished"}) => label = "normal"
    /\ (pc = "home_result" /\ home_res = "success"
          /\ homeCause \in {"forced", "finished"})
         => lastStatus = "mission_complete"
    /\ (lastStatus = "mission_complete_after_abort" /\ pc = "home_result")
         => homeCause = "idle"

C8_Witness ==
    /\ pc = "home_result"
    /\ home_res = "success"
    /\ homeCause = "forced"
    /\ force_go_home
    /\ lastStatus = "mission_complete"

\* C9 (as stated): a go_home from Idle that reaches home emits
\* mission_complete_after_abort only if it followed a forced go-home, and
\* plain mission_complete when no forced go-home preceded it.
C9_IdleReturnEmitsPlainComplete ==
    (pc = "home_result" /\ home_res = "success" /\ homeCause = "idle")
        => /\ lastStatus = "mission_complete_after_abort" => force_go_home
           /\ ~force_go_home => lastStatus = "mission_complete"

\* C9 (amended): a go_home from Idle that reaches home always emits
\* mission_complete_after_abort (its label is idle_go_home), whether or not
\* an abort or a forced go-home preceded it; it never emits plain
\* mission_complete.
C9_IdleReturnEmitsAfterAbort ==
    /\ (pc \in HomePcs /\ homeCause = "idle") => label = "idle_go_home"
    /\ (pc = "home_result" /\ home_res = "success" /\ homeCause = "idle")
         => lastStatus = "mission_complete_after_abort"

C9_Witness ==
    /\ pc = "home_result"
    /\ home_res = "success"
    /\ homeCause = "idle"
    /\ mission_aborted
    /\ ~force_go_home
    /\ lastStatus = "mission_complete_after_abort"

\* C10: during a home return only abort is honoured.  While the return
\* runs, nothing was cancelled and the one home goal is the goal, also after
\* go_home was polled; the return ends with abort exactly when abort was
\* polled, the home goal has then been cancelled exactly once and the
\* controller goes on to the idle loop.
C10_HomeReturnHonoursOnlyAbort ==
    /\ (pc \in {"home_poll", "home_cmd"})
         => /\ cmd \in {"none", "go_home"}
            /\ nCancel = 0
            /\ nSubmit = 1
            /\ goal.kind = "home"
            /\ goal.status # "canceled"
            /\ home_res = "none"
    /\ (pc = "home_result")
         => /\ (home_res = "abort") <=> (cmd = "abort")
            /\ home_res = "abort"
                 => /\ nCancel = 1
                    /\ goal.status # "active"
                    /\ lastStatus = "mission_aborted_by_operator"
            /\ home_res # "abort" => (nCancel = 0 /\ goal.status # "canceled")
            /\ nSubmit = 1
    /\ (lastStatus = "mission_aborted_by_operator" /\ goal.kind = "home")
         => pc \in {"home_result", "idle_enter"}

C10_Witness ==
    /\ pc = "home_poll"
    /\ cmd = "go_home"
    /\ goal = goToPose("home", 0)
    /\ nCancel = 0

\* ------------------------------------------------ the gate on its own
\* Poses for the localization wait looked at on its own: around both jump
\* thresholds (8 cm, 8 degrees), on them, diagonal offsets, and headings on
\* both sides of the +-180 degree seam of the quaternion's half angle.
GateSamples ==
    [x : {0, 5, 8, 9, 20}, y : {0}, h : {0, 4, 5, 176, 178}]
      \cup [x : {6}, y : {5, 6}, h : {0}]

\* The monitor when wait_for_amcl_stable has just been entered: the window
\* is reset, the latest pose is whatever earlier callbacks left (none on a
\* fresh process).
GateInit ==
    /\ pc = "loc_wait"
    /\ i = 0
    /\ attempt = 1
    /\ imgIdx = 0
    /\ cmd = "none"
    /\ res = "none"
    /\ home_res = "none"
    /\ label = "none"
    /\ mission_aborted = FALSE
    /\ force_go_home = FALSE
    /\ goal = NoGoal
    /\ CONTROL_COMMAND = "none"
    /\ MISSION_STATE = "idle"
    /\ lastStatus = "waiting_for_localization"
    /\ last \in GateSamples \cup {NoPose}
    /\ window_start = reset_window[1]
    /\ winAge = reset_window[2]
    /\ locElapsed = 0
    /\ nSubmit = 0
    /\ nCancel = 0
    /\ nFailed = 0
    /\ homeCause = "none"
    /\ postedPhase = "none"
    /\ doc = DefaultDoc
    /\ threads = NoThreads
    /\ replies = NoReplies
    /\ current_mission = NoMission

\* One iteration of the wait, fed from GateSamples.
GateWaitTick == LocWaitOn(GateSamples)

GateNext ==
    \/ GateWaitTick
    \/ Tick

\* wait_for_amcl_stable from its entry to its return.
SpecGate == GateInit /\ [][GateNext]_vars

\* ------------------------------------------------- the process start
\* The process before main has read the document.
BootInit(D) ==
    /\ pc = "boot"
    /\ i = 0
    /\ attempt = 1
    /\ imgIdx = 0
    /\ cmd = "none"
    /\ res = "none"
    /\ home_res = "none"
    /\ label = "none"
    /\ mission_aborted = FALSE
    /\ force_go_home = FALSE
    /\ goal = NoGoal
    /\ CONTROL_COMMAND = "none"
    /\ MISSION_STATE = "idle"
    /\ lastStatus = "none"
    /\ last = NoPose
    /\ window_start = NoPose
    /\ winAge = 0
    /\ locElapsed = 0
    /\ nSubmit = 0
    /\ nCancel = 0
    /\ nFailed = 0
    /\ homeCause = "none"
    /\ postedPhase = "none"
    /\ doc \in D
    /\ threads = NoThreads
    /\ replies = NoReplies
    /\ current_mission = NoMission

LoadInit == BootInit(Docs)

\* From the process start up to the end of the idle loop: the load, the idle
\* loop with the operator's requests and the home returns it serves; an
\* observed start ends it.
LoadNext ==
    \/ MainLoad
    \/ IdleEnter
    \/ IdleCheckCommand
    \/ IdlePollStart
    \/ HomeBegin
    \/ HomePoll
    \/ HomeCheckCommand
    \/ HomeResult
    \/ OperatorStart
    \/ OperatorAbort
    \/ OperatorGoHome
    \/ GoalSucceeds
    \/ GoalFails

SpecLoad == LoadInit /\ [][LoadNext]_vars

\* The documents of SpecBoot: the one of the missions, and the same with an
\* empty waypoints list.
BootDocs == {DefaultDoc, [DefaultDoc EXCEPT !.waypoints = << >>]}

MissionBootInit == BootInit(BootDocs)

BootNext ==
    \/ MainLoad
    \/ Next

\* The whole process: the load, then the missions of Spec.
SpecBoot == MissionBootInit /\ [][BootNext]_vars

\* ------------------------------------------------------------- fairness
\* One step of the control loop, whichever it is.
Controller ==
    \/ IdleEnter \/ IdleCheckCommand \/ IdlePollStart \/ PublishInitialPose
    \/ LocBegin \/ LocWaitTick \/ WpAttempt \/ WpPoll \/ WpExhausted
    \/ WpCheckCommand \/ MainWpResult \/ CaptureImage \/ AfterLoop
    \/ HomeBegin \/ HomePoll \/ HomeCheckCommand \/ HomeResult

\* The motion stack ends the goal in flight, one way or the other.
GoalCompletes == GoalSucceeds \/ GoalFails

\* The control loop keeps running (`while rclpy.ok()`), the clock advances
\* and every goal in flight is eventually ended by the motion stack.
SpecFair ==
    /\ Spec
    /\ WF_vars(Controller)
    /\ WF_vars(Tick)
    /\ WF_vars(GoalCompletes)

IdlePcs == {"idle_enter", "idle_cmd", "idle_state"}

\* C11: under fairness (the loop runs, time advances, every goal in flight
\* completes) the controller, wherever it is outside the idle loop (after an
\* observed start, in a waypoint run that was aborted, at any result of a
\* home return), eventually enters the idle loop again; the loop has no
\* other exit.
C11_EveryMissionReturnsToIdle ==
    (pc \notin IdlePcs) ~> (pc = "idle_enter")

C11_Witness ==
    /\ pc = "idle_enter"
    /\ lastStatus = "home_unreachable_during_mission"
    /\ goal = [kind |-> "home", index |-> 0, status |-> "failed"]
    /\ ~mission_aborted

\* One step of the localization wait: it either stays in the wait without
\* emitting anything, or it ends the wait with exactly one closing status and
\* main starts the waypoint loop at index 0.
LocWaitStep ==
    pc = "loc_wait" =>
        IF pc' = "loc_wait"
          THEN lastStatus' = lastStatus
          ELSE /\ pc' = "wp_attempt"
               /\ i' = 0
               /\ attempt' = 1
               /\ lastStatus' \in {"localization_ok", "localization_timeout"}
               /\ (lastStatus' = "localization_ok")
                    <=> (is_stable(last', window_start', winAge') = "stable")
               /\ (lastStatus' = "localization_timeout")
                    => LocTimedOut(locElapsed)

\* C12: the localization wait always ends: from its entry the controller
\* eventually starts the waypoint loop at index 0, whatever pose samples
\* arrive (none at all included); the step that ends the wait emits exactly
\* one of localization_ok (the gate settled) and localization_timeout (the
\* hard timeout expired), and no other step of the wait emits either.
C12_LocalizationWaitAlwaysEnds ==
    /\ (pc \in {"loc_begin", "loc_wait"})
         ~> (/\ pc = "wp_attempt"
             /\ i = 0
             /\ lastStatus \in {"localization_ok", "localization_timeout"})
    /\ [][LocWaitStep]_vars

\* The wait timed out without a single pose sample ever delivered.
C12_Witness ==
    /\ pc = "wp_attempt"
    /\ i = 0
    /\ lastStatus = "localization_timeout"
    /\ last = NoPose

\* One step seen from the image capture: it is entered only from the dispatch
\* on a run's result, and only for Success; while it runs the index stays;
\* when it ends the loop goes on with the next index, or leaves the loop
\* after the last one.
CaptureStep ==
    /\ (pc = "wp_result" /\ pc' # "wp_result")
         => ((pc' = "capture") <=> (res = "success"))
    /\ (pc' = "capture" /\ pc # "capture")
         => (pc = "wp_result" /\ i' = i /\ imgIdx' = 0)
    /\ (pc = "capture")
         => \/ /\ pc' = "capture"
               /\ i' = i
               /\ imgIdx' \in {imgIdx, imgIdx + 1}
            \/ /\ imgIdx = IMAGES_PER_WAYPOINT - 1
               /\ HasNextWaypoint(i)
               /\ pc' = "wp_attempt"
               /\ i' = i + 1
            \/ /\ imgIdx = IMAGES_PER_WAYPOINT - 1
               /\ ~HasNextWaypoint(i)
               /\ pc' = "after_loop"

\* C13: image capture for waypoint i starts exactly when the run for i
\* returned Success, never after Unreachable, Abort or GoHome; it runs once
\* for that index, and when it ends the controller advances to i+1, or to
\* the end of the waypoint loop after the last index.
C13_CaptureIffSuccess ==
    [][CaptureStep]_vars

\* Waypoint 0 was reached and its capture is over: the loop is at index 1.
C13_Witness ==
    /\ pc = "wp_attempt"
    /\ i = 1
    /\ attempt = 1
    /\ res = "success"
    /\ goal = [kind |-> "waypoint", index |-> 0, status |-> "succeeded"]

HomeRunPcs == {"home_poll", "home_cmd", "home_result"}

\* One step of a mission seen from the waypoint loop.
InOrderStep ==
    \* a run starts at index 0 after the localization wait, at the next index
    \* after a run that ended with Success or Unreachable, or retries its own
    /\ (pc' = "wp_attempt" /\ pc # "wp_attempt")
         => \/ pc = "loc_wait" /\ i' = 0
            \/ /\ pc \in {"wp_result", "capture"}
               /\ res \in {"success", "unreachable"}
               /\ i' = i + 1
            \/ pc = "wp_poll" /\ i' = i
    \* a run ends with one result for its own index, and a run that saw no
    \* command ends with waypoint_reached or waypoint_unreachable
    /\ (pc' = "wp_result" /\ pc # "wp_result")
         => /\ pc \in WpRunPcs
            /\ i' = i
            /\ goal'.kind = "waypoint" /\ goal'.index = i
            /\ \/ res' = "success" /\ lastStatus' = "waypoint_reached"
               \/ res' = "unreachable" /\ lastStatus' = "waypoint_unreachable"
               \/ res' \in {"abort", "go_home"} /\ cmd' = res'
    \* neither status is emitted anywhere else
    /\ (lastStatus' \in {"waypoint_reached", "waypoint_unreachable"}
          /\ lastStatus' # lastStatus)
         => (pc' = "wp_result" /\ pc # "wp_result")
    \* an unreachable waypoint does not stop the mission
    /\ (pc = "wp_result" /\ res = "unreachable" /\ pc' # pc)
         => IF i < NumWaypoints - 1
              THEN pc' = "wp_attempt" /\ i' = i + 1
              ELSE pc' = "after_loop" /\ ~mission_aborted' /\ ~force_go_home'
    \* the loop ends without a command only after the last index, and then
    \* the home return is entered
    /\ (pc = "after_loop" /\ ~mission_aborted /\ ~force_go_home)
         => /\ i = NumWaypoints - 1
            /\ pc' # pc => (pc' = "home_begin" /\ label' = "normal")
    \* the home return submits its goal once
    /\ (goal'.kind = "home" /\ goal'.status = "active" /\ goal.status # "active")
         => (pc = "home_begin" /\ pc' = "home_poll" /\ nSubmit' = 1)
    /\ (pc \in HomeRunPcs)
         => (nSubmit = 1 /\ pc' \in HomeRunPcs \cup {"idle_enter"})

\* C14: in a mission in which no operator command is observed the waypoints
\* are attempted in index order from 0, the run of each index ends with
\* exactly one of waypoint_reached and waypoint_unreachable, an unreachable
\* waypoint is followed by the next index, and after the last index exactly
\* one home-return goal is submitted.
C14_WaypointsInIndexOrder ==
    [][InOrderStep]_vars

\* Waypoint 0 was unreachable and the mission goes on with waypoint 1.
C14_Witness ==
    /\ pc = "wp_attempt"
    /\ i = 1
    /\ attempt = 1
    /\ res = "unreachable"
    /\ lastStatus = "waypoint_unreachable"
    /\ ~mission_aborted /\ ~force_go_home

\* The verdict of the gate in the present state of the monitor.
Verdict == is_stable(last, window_start, winAge)

\* C15: with a window open, is_stable answers warming_up as long as the
\* window is younger than the stable window, whatever the latest pose and
\* the anchor are.
\* So the wait, whatever pose its next iteration receives, neither settles
\* nor re-anchors the window.
C15_WarmingUpWhateverThePoses ==
    [][(window_start # NoPose /\ winAge < StableWindow)
         => /\ Verdict = "warming_up"
            /\ window_start' = window_start
            /\ lastStatus' # "localization_ok"]_vars

\* The wait is running, the anchor and the latest pose are 20 cm apart and
\* the window is still young.
C15_Witness ==
    /\ pc = "loc_wait"
    /\ window_start = [x |-> 0, y |-> 0, h |-> 0]
    /\ last = [x |-> 20, y |-> 0, h |-> 0]
    /\ winAge = StableWindow - 1
    /\ locElapsed >= 1

\* The heading of a pose in degrees, and the distance on the circle between
\* two headings.
HeadingDeg(p) == 2 * p.h
CircleDelta(a, b) ==
    LET d == (a - b) % 360 IN IF d > 180 THEN 360 - d ELSE d

\* Pose a is within both jump thresholds of pose b, bounds included.
WithinJump(a, b) ==
    /\ (a.x - b.x) * (a.x - b.x) + (a.y - b.y) * (a.y - b.y) <= 8 * 8
    /\ CircleDelta(HeadingDeg(a), HeadingDeg(b)) <= 8

\* C16: once the window is as old as the stable window, is_stable answers
\* stable exactly when the latest pose is within 8 cm and within 8 degrees
\* (on the circle) of the anchor, both bounds included, and unstable
\* otherwise; anchor (0,0,0) with pose (5 cm,0,0) is stable, with
\* (20 cm,0,0) it is not.
C16_StableIffWithinThresholds ==
    /\ (window_start # NoPose /\ winAge >= StableWindow)
         => Verdict = IF WithinJump(last, window_start)
                        THEN "stable" ELSE "unstable"
    /\ is_stable([x |-> 5, y |-> 0, h |-> 0], [x |-> 0, y |-> 0, h |-> 0],
                 StableWindow) = "stable"
    /\ is_stable([x |-> 20, y |-> 0, h |-> 0], [x |-> 0, y |-> 0, h |-> 0],
                 StableWindow) = "unstable"

\* The gate settled with the latest pose exactly on both thresholds.
C16_Witness ==
    /\ pc = "wp_attempt"
    /\ lastStatus = "localization_ok"
    /\ window_start = [x |-> 0, y |-> 0, h |-> 0]
    /\ last = [x |-> 8, y |-> 0, h |-> 4]

\* update stores every pose in `last` and nothing clears it: a pose has been
\* delivered at some time exactly when last is set.
SampleEverDelivered == last # NoPose

\* C17 as claimed: is_stable answers no_amcl_pose_yet exactly when no pose
\* has ever been delivered; after the first pose every verdict is
\* warming_up, unstable or stable, also after reset_window.
C17_NoSampleYetOnlyBeforeFirstSample ==
    (Verdict = "no_amcl_pose_yet") <=> ~SampleEverDelivered

\* C17: is_stable answers no_amcl_pose_yet exactly when no window is open,
\* that is when no pose has been delivered since the monitor was built or
\* since the last reset_window; with a window open the verdict is
\* warming_up, unstable or stable.  A monitor that never got a pose has no
\* window.
C17_NoSampleYetIffNoWindowOpen ==
    /\ (Verdict = "no_amcl_pose_yet") <=> (window_start = NoPose)
    /\ window_start # NoPose => Verdict \in {"warming_up", "unstable", "stable"}
    /\ ~SampleEverDelivered => window_start = NoPose

\* The wait is running on a monitor that holds a pose of an earlier phase,
\* its window was reset and no pose has arrived since.
C17_Witness ==
    /\ pc = "loc_wait"
    /\ locElapsed >= 1
    /\ SampleEverDelivered
    /\ window_start = NoPose
    /\ Verdict = "no_amcl_pose_yet"

\* While a window is open `last` is a pose delivered at or after the anchor:
\* the window opens with last = window_start and only update changes last.
\* A step of the clock makes an age grow; an iteration of the wait never does.
ClockStep == winAge' > winAge \/ locElapsed' > locElapsed

\* C18 as claimed: a pose outside the jump thresholds of the anchor never
\* leaves the window anchored there up to a stable verdict: from a state
\* whose latest pose is outside the thresholds of the anchor the gate does
\* not settle on that anchor.
C18_StableImpliesNoOutlierSinceAnchor ==
    [][(window_start # NoPose /\ ~WithinJump(last, window_start))
         => ~(lastStatus' = "localization_ok" /\ window_start' = window_start)]_vars

\* C18: the poses are compared with the anchor only when is_stable runs on a
\* window as old as the stable window, and only the latest one is: the wait
\* resets an open window exactly in an iteration that finds the window old
\* enough and the latest pose outside the thresholds; a pose that arrives
\* during the warm-up, however far, leaves the anchor where it is; a stable
\* verdict says that the window is old enough and the latest pose is within
\* the thresholds of the anchor.
C18_OnlyLatestPoseIsCompared ==
    [][/\ (window_start # NoPose /\ window_start' # window_start)
            => /\ window_start' = NoPose
               /\ winAge >= StableWindow
               /\ ~WithinJump(last', window_start)
       /\ (window_start # NoPose /\ winAge >= StableWindow /\ ~ClockStep
             /\ ~WithinJump(last', window_start))
            => window_start' = NoPose
       /\ (lastStatus' = "localization_ok")
            => /\ window_start' # NoPose
               /\ winAge' >= StableWindow
               /\ WithinJump(last', window_start')]_vars

\* A pose 20 cm off arrived during the warm-up and the window is still
\* anchored where it was when the warm-up is over.
C18_Witness ==
    /\ pc = "loc_wait"
    /\ window_start = [x |-> 0, y |-> 0, h |-> 0]
    /\ last = [x |-> 20, y |-> 0, h |-> 0]
    /\ winAge = StableWindow

\* C19: in the localization wait an iteration whose verdict is unstable
\* resets the window in that same iteration, so the next evaluation finds no
\* window; an iteration whose verdict is warming_up leaves the anchor and
\* its age alone; with no window (no_amcl_pose_yet) nothing is reset, the
\* window stays closed or opens at the pose that arrives.
C19_ResetOnUnstableOnly ==
    [][(pc = "loc_wait" /\ ~ClockStep) =>
         /\ window_start # NoPose =>
              LET v == is_stable(last', window_start, winAge)
              IN /\ v = "unstable"
                      => /\ window_start' = NoPose
                         /\ winAge' = 0
                         /\ pc' = "loc_wait" => Verdict' = "no_amcl_pose_yet"
                 /\ v = "warming_up"
                      => /\ window_start' = window_start
                         /\ winAge' = winAge
         /\ window_start = NoPose
              => /\ window_start' \in {NoPose, last'}
                 /\ last' # last => window_start' = last'
                 /\ winAge' = 0]_vars

\* The wait goes on after an unstable verdict: the latest pose is the one
\* that was 20 cm off, the window is closed.
C19_Witness ==
    /\ pc = "loc_wait"
    /\ last = [x |-> 20, y |-> 0, h |-> 0]
    /\ window_start = NoPose
    /\ winAge = 0
    /\ locElapsed = StableWindow

\* C20: the peer's mission-start flag is one-shot: a poll that returns
\* start finds the flag set and leaves it cleared, the poll after it returns
\* idle, and only a start request sets the flag; every poll that returns
\* start so uses up a start request of its own, and the polls that return
\* start are never more than the start requests.
C20_StartFlagIsOneShot ==
    /\ poll_mission_state("ok", "start") = "start"
    /\ poll_mission_state("ok", mission_state_after("ok", "start")) = "idle"
    /\ [][/\ (pc = "idle_state" /\ pc' = "initpose")
               => (MISSION_STATE = "start" /\ MISSION_STATE' = "idle")
          /\ (pc = "idle_state" /\ pc' = "idle_cmd")
               => \/ MISSION_STATE' = "idle"
                  \/ MISSION_STATE' = MISSION_STATE
          /\ (MISSION_STATE = "idle" /\ MISSION_STATE' = "start")
               => (pc' = pc /\ lastStatus' = lastStatus)]_vars

\* The poll returned start and the flag is cleared while a second start
\* request has not been made.
C20_Witness ==
    /\ pc = "initpose"
    /\ lastStatus = "mission_started"
    /\ MISSION_STATE = "idle"

\* Where the control loop stands just before a poll of the command.
PollPcs == {"idle_cmd", "wp_cmd", "home_cmd"}

\* C21: the peer's command is one-shot: a poll returns the posted command
\* and leaves none behind, the poll after it returns none, only an operator
\* request posts a command, and the controller gets a command nowhere but
\* in a poll; so one request is observed by the controller at most once.
C21_CommandIsOneShot ==
    /\ \A c \in {"abort", "go_home"} :
         /\ check_control_command("ok", c) = c
         /\ check_control_command("ok", control_state_after("ok", c)) = "none"
    /\ [][/\ (pc \in PollPcs /\ pc' # pc)
               => /\ cmd' \in {"none", CONTROL_COMMAND}
                  /\ CONTROL_COMMAND' \in {"none", CONTROL_COMMAND}
                  /\ cmd' # "none" => CONTROL_COMMAND' = "none"
          /\ (CONTROL_COMMAND' # "none" /\ CONTROL_COMMAND' # CONTROL_COMMAND)
               => (pc' = pc /\ cmd' = cmd /\ lastStatus' = lastStatus)
          /\ (pc \notin PollPcs) => cmd' \in {cmd, "none"}]_vars

\* A waypoint run observed go_home and the peer holds no command any more.
C21_Witness ==
    /\ pc = "wp_result"
    /\ res = "go_home"
    /\ cmd = "go_home"
    /\ CONTROL_COMMAND = "none"

\* C22 as claimed: a start request accepted by the peer is never lost: the
\* flag it set is cleared only by the handler of a start poll, never by
\* another exchange between the controller and the peer.
C22_StartFlagClearedOnlyByPoll ==
    [][(MISSION_STATE = "start" /\ MISSION_STATE' = "idle")
         => pc = "idle_state"]_vars

\* A step of the control loop that polled and got the default, or posted a
\* status: the loop goes on where it would with a silent peer.
DegradedStep ==
    /\ (pc = "idle_cmd" /\ pc' # pc /\ cmd' = "none")
         => (pc' = "idle_state" /\ goal' = goal /\ lastStatus' = lastStatus)
    /\ (pc = "wp_cmd" /\ pc' # pc /\ cmd' = "none")
         => /\ pc' = "wp_poll"
            /\ goal' = goal /\ res' = res /\ lastStatus' = lastStatus
            /\ i' = i /\ attempt' = attempt
    /\ (pc = "home_cmd" /\ pc' # pc /\ cmd' = "none")
         => /\ pc' = "home_poll"
            /\ goal' = goal /\ home_res' = home_res /\ lastStatus' = lastStatus
    /\ (pc = "idle_state" /\ pc' \notin {pc, "initpose"})
         => (pc' = "idle_cmd" /\ goal' = goal /\ lastStatus' = lastStatus)
    /\ (pc = "idle_enter" /\ pc' # pc)
         => (pc' = "idle_cmd" /\ lastStatus' = "mission_idle")

\* C23: a call on the control channel that fails (request or answer lost,
\* or an answer that is no known command) gives the controller none for a
\* command and idle for the start flag, a status is handed over and
\* forgotten; the control loop then goes on as with no command and no
\* start, with its goal, result and position in the mission unchanged.
C23_FailedCallsDegradeToDefaults ==
    /\ \A net \in Net \ {"ok"} :
         /\ \A cc \in Commands : check_control_command(net, cc) = "none"
         /\ \A ms \in {"idle", "start"} : poll_mission_state(net, ms) = "idle"
    /\ check_control_command("ok", "unknown") = "none"
    /\ [][DegradedStep]_vars

\* A waypoint run goes on polling its goal although the peer holds an abort:
\* the poll that should have fetched it failed on the way to the peer.
C23_Witness ==
    /\ pc = "wp_poll"
    /\ cmd = "none"
    /\ CONTROL_COMMAND = "abort"
    /\ postedPhase = "mission"
    /\ goal.status = "active"
    /\ attempt = 1

\* The frame a document declares, and the poses it lists.
DeclaredFrame(d) == IF d.map_frame = Absent THEN "map" ELSE d.map_frame
ListedPoses(d) ==
    IF d.waypoints_key THEN {d.waypoints[k] : k \in 1..Len(d.waypoints)} ELSE {}

\* The document has one of the defects of the claim.
Defective(d) ==
    \/ d.home = NoEntry
    \/ ListedPoses(d) = {}
    \/ \E e \in (ListedPoses(d) \cup {d.home}) \ {NoEntry} :
         e.frame_id \notin {Absent, DeclaredFrame(d)}

\* C24: a document with no waypoints (empty or absent list), without home,
\* or with a pose in another frame than map_frame fails to load, and then
\* the process only sends pose_file_error and shuts down: it never enters
\* the control loop, takes neither a start nor a command from the peer and
\* submits no goal.
C24_BadDocumentNeverStarts ==
    /\ [](Defective(doc) <=> ~load_waypoints_yaml(doc).ok)
    /\ [](Defective(doc)
            => /\ pc \in {"boot", "shutdown"}
               /\ goal = NoGoal
               /\ cmd = "none"
               /\ lastStatus \in {"none", "pose_file_error"})
    /\ [][Defective(doc)
            => /\ pc' = pc \/ (pc = "boot" /\ pc' = "shutdown")
               /\ CONTROL_COMMAND # "none" => CONTROL_COMMAND' # "none"
               /\ MISSION_STATE = "start" => MISSION_STATE' = "start"]_vars

\* A document with home and two waypoints, one of them in another frame: the
\* process has shut down with a start and a go_home waiting on the peer.
C24_Witness ==
    /\ pc = "shutdown"
    /\ lastStatus = "pose_file_error"
    /\ doc.home # NoEntry
    /\ doc.waypoints_key /\ Len(doc.waypoints) = 2
    /\ MISSION_STATE = "start"
    /\ CONTROL_COMMAND = "go_home"
    /\ goal = NoGoal

\* The WaypointSet main works with once the load has succeeded.
Loaded == load_waypoints_yaml(doc)

\* C25 as claimed: the WaypointSet of a successful load has at least one
\* target, all its poses in the frame of the load, and targets with ids that
\* differ from each other, whichever ids are given and whichever are
\* defaulted to wp<index>.
C25_LoadedTargetsHaveDistinctIds ==
    (pc \notin {"boot", "shutdown"}) =>
        /\ Loaded.ok
        /\ Len(Loaded.targets) >= 1
        /\ Loaded.home.frame_id = Loaded.map_frame
        /\ \A k \in 1..Len(Loaded.targets) :
             Loaded.targets[k].frame_id = Loaded.map_frame
        /\ \A j, k \in 1..Len(Loaded.targets) :
             j # k => Loaded.targets[j].pose_id # Loaded.targets[k].pose_id

\* The sixteen status strings of the listed vocabulary.
Vocabulary ==
    {"mission_idle", "mission_started", "waiting_for_localization",
     "localization_ok", "localization_timeout", "moving_to_waypoint",
     "waypoint_reached", "waypoint_failed_attempt", "waypoint_unreachable",
     "returning_home", "mission_complete", "mission_complete_after_abort",
     "home_unreachable_during_mission", "mission_aborted_by_operator",
     "return_home_requested", "initialpose_published_from_home"}

\* C26 as claimed: every status handed to the status sink, on every path
\* from the process start on, the failed load included, is one of the
\* sixteen strings of the vocabulary ("none": nothing was sent yet).
C26_EveryStatusInVocabulary ==
    lastStatus \in Vocabulary \cup {"none"}

\* C26: every status handed to the status sink is one of the sixteen strings
\* of the vocabulary or pose_file_error; pose_file_error is what the process
\* sends when the load of the document fails, just before it shuts down, and
\* it is sent on no other path.
C26_VocabularyPlusPoseFileError ==
    /\ lastStatus \in Vocabulary \cup {"none", "pose_file_error"}
    /\ (lastStatus = "pose_file_error") <=> (pc = "shutdown")

\* The load of a document without waypoints failed and the process is down.
C26_Witness ==
    /\ pc = "shutdown"
    /\ lastStatus = "pose_file_error"
    /\ doc.waypoints = << >>
    /\ goal = NoGoal

\* C27: the pose callback runs only inside a spin of the control loop, as a
\* whole, never in the middle of is_stable or reset_window: in every state
\* the control loop can read, an open window comes with a latest pose, a
\* closed one has no age; and a step that delivers a pose leaves the monitor
\* as update leaves it, or as update followed by the reset of the wait.
C27_MonitorReadConsistently ==
    /\ [](window_start # NoPose => last # NoPose)
    /\ [](window_start = NoPose => winAge = 0)
    /\ [][last' # last =>
            IF window_start = NoPose
              THEN window_start' = last' /\ winAge' = 0
              ELSE \/ window_start' = window_start /\ winAge' = winAge
                   \/ pc = "loc_wait" /\ window_start' = NoPose /\ winAge' = 0]_vars

\* A pose arrived while a waypoint goal is polled: the window opened earlier
\* keeps its anchor and the latest pose is the new one.
C27_Witness ==
    /\ pc = "wp_poll"
    /\ lastStatus = "moving_to_waypoint"
    /\ window_start = [x |-> 0, y |-> 0, h |-> 0]
    /\ last = [x |-> 20, y |-> 0, h |-> 0]

\* The yaws is_stable hands to yaw_diff in the present state of the monitor.
LastYaw == IF last = NoPose THEN 0 ELSE quat_to_yaw(last.h)
AnchorYaw == IF window_start = NoPose THEN 0 ELSE quat_to_yaw(window_start.h)

\* C28: yaw_diff does not change when full turns are added to a yaw, its
\* result lies between 0 and 180 degrees, and it is the same in both
\* directions.
C28_YawDiffWrapsAndIsSymmetric ==
    /\ yaw_diff(LastYaw, AnchorYaw) \in 0..180
    /\ yaw_diff(LastYaw, AnchorYaw) = yaw_diff(AnchorYaw, LastYaw)
    /\ \A k \in (0 - MaxTurns)..MaxTurns :
         /\ yaw_diff(LastYaw + 360 * k, AnchorYaw) = yaw_diff(LastYaw, AnchorYaw)
         /\ yaw_diff(AnchorYaw + 360 * k, LastYaw) = yaw_diff(AnchorYaw, LastYaw)

\* The gate settled on an anchor and a latest pose on the two sides of the
\* seam: headings of 0 and 356 degrees, 4 degrees apart.
C28_Witness ==
    /\ pc = "wp_attempt"
    /\ lastStatus = "localization_ok"
    /\ window_start # NoPose /\ window_start.h = 0
    /\ last # NoPose /\ last.h = 178

\* Where the control loop is before and after the step.
PhaseNow == Phase(pc, label)
PhaseNext == Phase(pc', label')

\* C29: a goal is submitted only on an operator's instruction: a mission is
\* entered only from the idle loop by a poll that found the start flag set,
\* a home return outside a mission only by a poll that fetched go_home, a
\* waypoint goal is submitted only in a mission and a home goal only in a
\* mission or in such a home return; in the idle loop no goal is submitted
\* or in flight and nothing is cancelled.
C29_GoalsOnlyOnOperatorInstruction ==
    /\ [](PhaseNow = "idle" => goal.status # "active")
    /\ [][/\ (PhaseNext = "mission" /\ PhaseNow # "mission")
               => /\ pc = "idle_state"
                  /\ MISSION_STATE = "start"
                  /\ lastStatus' = "mission_started"
          /\ (PhaseNext = "idle_home" /\ PhaseNow # "idle_home")
               => /\ pc = "idle_cmd"
                  /\ CONTROL_COMMAND = "go_home"
                  /\ cmd' = "go_home"
          /\ (goal'.status = "active" /\ goal' # goal)
               => \/ /\ goal'.kind = "waypoint"
                     /\ pc = "wp_attempt"
                     /\ PhaseNow = "mission"
                  \/ /\ goal'.kind = "home"
                     /\ pc = "home_begin"
                     /\ PhaseNow \in {"mission", "idle_home"}
          /\ (PhaseNow = "idle")
               => (goal' = goal /\ nSubmit' = nSubmit /\ nCancel' = nCancel)]_vars

\* A home goal is in flight in a home return that a go_home fetched in the
\* idle loop began, with no mission before it.
C29_Witness ==
    /\ pc = "home_poll"
    /\ label = "idle_go_home"
    /\ goal = goToPose("home", 0)
    /\ nSubmit = 1
    /\ last = NoPose

\* A step that submits a goal, and a step that invokes cancelTask.
SubmitStep == goal'.status = "active" /\ goal' # goal
CancelStep == nCancel' > nCancel

\* The command the controller fetched in this step is an operator's command
\* the peer held.
CommandObserved == cmd' \in {"abort", "go_home"} /\ CONTROL_COMMAND = cmd'

\* C30 (as stated): a goal is submitted only when the one before it is
\* complete or cancelled, and cancelTask is invoked only on a goal that is
\* in flight and only on an observed operator command.
C30_CancelOnlyOnGoalInFlight ==
    [][/\ SubmitStep => goal.status # "active"
       /\ CancelStep => (goal.status = "active" /\ CommandObserved)]_vars

\* C30 (amended): a goal is submitted only when the one before it is
\* complete or cancelled; the command poll of a run is entered only with the
\* run's goal in flight; cancelTask is invoked only from that command poll,
\* on an observed operator command, on the run's goal, which is in flight
\* or has finished since the completion test; a cancelled goal is never
\* cancelled again and a goal in flight is cancelled by the step.
C30_CancelOnlyFromPollOfLiveGoal ==
    [][/\ SubmitStep => goal.status # "active"
       /\ (pc' \in {"wp_cmd", "home_cmd"} /\ pc' # pc)
            => (goal.status = "active" /\ goal' = goal)
       /\ CancelStep
            => /\ pc \in {"wp_cmd", "home_cmd"}
               /\ CommandObserved
               /\ goal.kind = (IF pc = "wp_cmd" THEN "waypoint" ELSE "home")
               /\ goal.status \in {"active", "succeeded", "failed"}
               /\ goal'.status # "active"
               /\ goal.status # "active" => goal' = goal]_vars

\* A waypoint run ended on go_home and invoked cancelTask, yet its goal had
\* been reached between the completion test and the command poll.
C30_Witness ==
    /\ pc = "wp_result"
    /\ res = "go_home"
    /\ goal = [kind |-> "waypoint", index |-> 0, status |-> "succeeded"]
    /\ nCancel = 1

\* The statuses that end a mission, and the statuses of a waypoint run.
Terminals ==
    {"mission_complete", "mission_complete_after_abort",
     "home_unreachable_during_mission", "mission_aborted_by_operator"}
WaypointEvents ==
    {"moving_to_waypoint", "waypoint_reached", "waypoint_failed_attempt",
     "waypoint_unreachable"}

\* The mission has emitted its terminal status and is on its way back to
\* the idle loop, through code that sends nothing.
Unwinding ==
    \/ pc = "wp_result" /\ res = "abort"
    \/ pc = "after_loop" /\ AbortedStaysIdle(mission_aborted, force_go_home)
    \/ pc = "home_result"

\* C31: a mission (from mission_started to the next mission_idle) emits
\* exactly one terminal status and nothing after it: once the last status
\* sent is a terminal one the loop only unwinds to the idle loop, no status
\* (so no waypoint event) replaces it before mission_idle, and the mission
\* is left for the idle loop only with a terminal status as the last one.
C31_OneTerminalStatusPerMission ==
    /\ []((PhaseNow = "mission" /\ lastStatus \in Terminals) => Unwinding)
    /\ []((PhaseNow = "mission" /\ Unwinding) => lastStatus \in Terminals)
    /\ [][/\ (PhaseNow = "mission" /\ lastStatus \in Terminals)
               => /\ lastStatus' = lastStatus
                  /\ PhaseNext \in {"mission", "idle"}
          /\ (PhaseNow = "mission" /\ PhaseNext # "mission")
               => /\ lastStatus \in Terminals
                  /\ pc' = "idle_enter"
          /\ (PhaseNow = "idle" /\ PhaseNext = "mission")
               => lastStatus' = "mission_started"]_vars

\* A mission whose home return failed has emitted its terminal status and
\* is about to go back to the idle loop.
C31_Witness ==
    /\ pc = "home_result"
    /\ label = "normal"
    /\ home_res = "fail"
    /\ lastStatus = "home_unreachable_during_mission"

\* A command poll of a waypoint run or of a home return fetches abort.
AbortFetched == pc \in {"wp_cmd", "home_cmd"} /\ cmd' = "abort"

\* C32: an abort posted while the loop is idle is ignored: it is never the
\* abort that a later mission or home return fetches and obeys, and no
\* step of the idle loop cancels a goal or leaves the loop on it.
C32_IdleAbortNeverAbortsLaterRun ==
    [][/\ AbortFetched => postedPhase # "idle"
       /\ (pc = "idle_cmd" /\ cmd' = "abort")
            => (pc' = "idle_state" /\ goal' = goal /\ nCancel' = nCancel
                /\ lastStatus' = lastStatus)]_vars

\* The step hands the status s to send_status (inside a waypoint run two
\* statuses that follow each other differ).
Emits(s) == lastStatus' = s /\ lastStatus # s

\* C33: in a waypoint run, moving_to_waypoint of attempt k comes with the
\* k-th goal submission and with no other; a goal that the run finds failed
\* gives waypoint_failed_attempt for its attempt (the k-th failure is the
\* k-th goal's); waypoint_unreachable is sent only after exactly
\* MAX_WAYPOINT_RETRIES failed attempts of that run; waypoint_reached is
\* sent only when the goal submitted last, for this waypoint, succeeded.
C33_WaypointEventsFollowAttempts ==
    [][/\ Emits("moving_to_waypoint")
            => /\ pc = "wp_attempt"
               /\ goal' = goToPose("waypoint", i)
               /\ nSubmit' = attempt
               /\ nSubmit' = nSubmit + 1
       /\ (SubmitStep /\ goal'.kind = "waypoint")
            => Emits("moving_to_waypoint")
       /\ (pc = "wp_poll" /\ isTaskComplete(goal) /\ ~resultSucceeded(goal)
             /\ pc' # pc)
            => /\ Emits("waypoint_failed_attempt")
               /\ nFailed' = attempt
               /\ nSubmit = attempt
       /\ Emits("waypoint_failed_attempt")
            => (pc = "wp_poll" /\ goal.status = "failed" /\ nFailed' = nFailed + 1)
       /\ Emits("waypoint_unreachable")
            => /\ pc = "wp_exhausted"
               /\ nFailed = MAX_WAYPOINT_RETRIES
               /\ nSubmit = MAX_WAYPOINT_RETRIES
               /\ goal = [kind |-> "waypoint", index |-> i, status |-> "failed"]
       /\ Emits("waypoint_reached")
            => /\ pc = "wp_poll"
               /\ goal = [kind |-> "waypoint", index |-> i,
                          status |-> "succeeded"]
               /\ nSubmit = attempt]_vars

\* The second attempt of a run has failed and its event is sent; the third
\* attempt is about to begin.
C33_Witness ==
    /\ pc = "wp_attempt"
    /\ attempt = 3
    /\ nFailed = 2
    /\ nSubmit = 2
    /\ lastStatus = "waypoint_failed_attempt"

\* C34: every localization wait starts by resetting the window, so during
\* the wait an open window is never older than the wait itself (its anchor
\* arrived after the wait began), and localization_ok is sent only on an
\* open window that is at least StableWindow old and no older than the
\* wait: never on a window opened before the mission started.
C34_VerdictOnWindowOfThisWait ==
    /\ [](pc = "loc_wait" /\ window_start # NoPose => winAge <= locElapsed)
    /\ [][/\ (pc = "loc_begin" /\ pc' # pc)
               => (pc' = "loc_wait" /\ window_start' = NoPose
                   /\ locElapsed' = 0)
          /\ Emits("localization_ok")
               => /\ pc = "loc_wait"
                  /\ window_start' # NoPose
                  /\ winAge' >= StableWindow
                  /\ winAge' <= locElapsed]_vars

\* A wait has ended on localization_ok with a window anchored on a pose
\* that arrived during it.
C34_Witness ==
    /\ pc = "wp_attempt"
    /\ i = 0
    /\ lastStatus = "localization_ok"
    /\ window_start = [x |-> 20, y |-> 0, h |-> 0]
    /\ last = [x |-> 20, y |-> 0, h |-> 0]
    /\ winAge = StableWindow

\* The step runs the pose callback only (a spin outside the wait), the
\* entry of the wait (reset_window), or an iteration of the wait (at most
\* one callback, then possibly reset_window).
OutsideWait == pc \notin {"loc_begin", "loc_wait"}

\* C35: update always writes the latest pose; it opens a window, anchored
\* at that pose with age 0, only when none is open, and leaves the anchor
\* and the age of an open window as they are; reset_window clears the
\* anchor and the age and leaves the latest pose as it is.
C35_UpdateAndResetFrame ==
    [][/\ last' # last => last' \in Samples
       /\ (OutsideWait /\ window_start # NoPose)
            => /\ window_start' = window_start
               /\ last' # last => winAge' = winAge
       /\ (OutsideWait /\ window_start = NoPose /\ window_start' # NoPose)
            => (window_start' = last' /\ winAge' = 0)
       /\ (OutsideWait /\ window_start = NoPose /\ last' # last)
            => window_start' = last'
       /\ (pc = "loc_begin" /\ pc' # pc)
            => (window_start' = NoPose /\ winAge' = 0 /\ last' = last)
       /\ (pc = "loc_wait" /\ window_start # NoPose /\ window_start' # NoPose)
            => (window_start' = window_start /\ winAge' >= winAge)
       /\ (pc = "loc_wait" /\ window_start = NoPose /\ window_start' # NoPose)
            => (window_start' = last' /\ winAge' = 0)
       /\ (pc = "loc_wait" /\ window_start' = NoPose) => winAge' = 0]_vars

\* Outside the wait a window is open, it has aged, and a later pose that
\* differs from the anchor has been recorded without moving the anchor.
C35_Witness ==
    /\ pc = "idle_cmd"
    /\ window_start = [x |-> 0, y |-> 0, h |-> 0]
    /\ last = [x |-> 20, y |-> 0, h |-> 0]
    /\ winAge = 1

\* ------------------------------------------------- the peer on its own
\* The peer serves every request on a thread of its own (app.run, threaded
\* by default): the handlers below run interleaved, and a handler that
\* reads a shared global and writes it later is two steps.  The requests
\* come from any client at any time.  Of the peer's globals the model
\* follows MISSION_STATE, CONTROL_COMMAND and the current mission's status
\* and ended_at; LAST_STATUS, LAST_TERMINAL_STATUS and the mission's
\* counters are read by the pages only and are left out.

\* The variables of the robot's side, which no handler touches.
robotVars ==
    << ctlVars, amclVars, histVars, goal, lastStatus, locElapsed, doc >>

\* The statuses posted to /status_update.
StatusInputs ==
    {"mission_idle", "mission_started", "return_home_requested",
     "returning_home", "waypoint_reached", "mission_complete",
     "mission_complete_after_abort", "home_unreachable_during_mission",
     "mission_aborted_by_operator"}

\* _start_new_mission: a new record becomes the current one.  Ids are
\* counted instead of drawn; ended_at 0 is None.
_start_new_mission(m) ==
    [id |-> m.id + 1, status |-> "pending", ended_at |-> 0]

\* The stamp datetime.now() gives to a write that follows the one that left
\* `stamp`: a later instant.
Now(stamp) == stamp + 1

\* _update_mission_on_status: the current record after the status.
_update_mission_on_status(m, status) ==
    LET cur == IF m = NoMission /\ status = "mission_started"
                 THEN _start_new_mission(m) ELSE m
        run == IF status = "mission_started"
                 THEN [cur EXCEPT !.status = "running"] ELSE cur
    IN IF cur = NoMission THEN cur
       ELSE IF status \in {"mission_complete", "mission_complete_after_abort"}
         THEN [run EXCEPT !.status = "complete", !.ended_at = Now(@)]
       ELSE IF status = "home_unreachable_during_mission"
         THEN [run EXCEPT !.status = "home_unreachable", !.ended_at = Now(@)]
       ELSE IF status = "mission_aborted_by_operator"
         THEN [run EXCEPT !.status = "aborted", !.ended_at = Now(@)]
       ELSE run

\* start_mission: the flag is set and a mission is registered.
start_mission ==
    /\ current_mission.id < MaxMissions
    /\ MISSION_STATE' = "start"
    /\ current_mission' = _start_new_mission(current_mission)
    /\ UNCHANGED << CONTROL_COMMAND, postedPhase, threads, replies >>
    /\ UNCHANGED robotVars

\* mission_state, `state = MISSION_STATE`.
mission_state_read ==
    /\ threads.mission_state = NoThread
    /\ threads' = [threads EXCEPT !.mission_state = MISSION_STATE]
    /\ UNCHANGED << CONTROL_COMMAND, MISSION_STATE, postedPhase, replies,
                    current_mission >>
    /\ UNCHANGED robotVars

\* mission_state, `if MISSION_STATE == "start": MISSION_STATE = "idle"` and
\* the answer.
mission_state_reset ==
    /\ threads.mission_state # NoThread
    /\ MISSION_STATE' = IF MISSION_STATE = "start" THEN "idle" ELSE MISSION_STATE
    /\ replies' = [replies EXCEPT !.mission_state = threads.mission_state]
    /\ threads' = [threads EXCEPT !.mission_state = NoThread]
    /\ UNCHANGED << CONTROL_COMMAND, postedPhase, current_mission >>
    /\ UNCHANGED robotVars

\* abort_mission: the command is stored and the handler answers ok.
abort_mission ==
    /\ CONTROL_COMMAND' = "abort"
    /\ postedPhase' = Phase(pc, label)
    /\ replies' = [replies EXCEPT !.abort_mission = "ok"]
    /\ UNCHANGED << MISSION_STATE, threads, current_mission >>
    /\ UNCHANGED robotVars

\* return_home, `return jupytext({...})`: the name is not defined, the call
\* raises NameError and the server answers 500.
ReturnHomeAnswer == "error"

\* return_home: the command is stored, then the answer is built.
return_home ==
    /\ CONTROL_COMMAND' = "go_home"
    /\ postedPhase' = Phase(pc, label)
    /\ replies' = [replies EXCEPT !.return_home = ReturnHomeAnswer]
    /\ UNCHANGED << MISSION_STATE, threads, current_mission >>
    /\ UNCHANGED robotVars

\* control_state, `cmd = CONTROL_COMMAND`.
control_state_read ==
    /\ threads.control_state = NoThread
    /\ threads' = [threads EXCEPT !.control_state = CONTROL_COMMAND]
    /\ UNCHANGED << CONTROL_COMMAND, MISSION_STATE, postedPhase, replies,
                    current_mission >>
    /\ UNCHANGED robotVars

\* control_state, `CONTROL_COMMAND = "none"` and the answer.
control_state_reset ==
    /\ threads.control_state # NoThread
    /\ CONTROL_COMMAND' = "none"
    /\ postedPhase' = "none"
    /\ replies' = [replies EXCEPT !.control_state = threads.control_state]
    /\ threads' = [threads EXCEPT !.control_state = NoThread]
    /\ UNCHANGED << MISSION_STATE, current_mission >>
    /\ UNCHANGED robotVars

\* status_update: mission_idle lowers the flag; the current mission's
\* record follows the status.  The robot posts mission_started only after
\* a mission_state poll that answered start.
status_update ==
    /\ \E status \in StatusInputs :
         /\ status \in Terminals => current_mission.ended_at < MaxStamps
         /\ status = "mission_started" => replies.mission_state = "start"
         /\ MISSION_STATE' =
              IF status = "mission_idle" THEN "idle" ELSE MISSION_STATE
         /\ current_mission' = _update_mission_on_status(current_mission, status)
    /\ UNCHANGED << CONTROL_COMMAND, postedPhase, threads, replies >>
    /\ UNCHANGED robotVars

PeerNext ==
    \/ start_mission
    \/ mission_state_read
    \/ mission_state_reset
    \/ abort_mission
    \/ return_home
    \/ control_state_read
    \/ control_state_reset
    \/ status_update

\* The peer from its start, with the robot's side at rest.
SpecPeer == Init /\ [][PeerNext]_vars

\* C36: with the handlers interleaved no posted command is lost: a command
\* that the peer holds leaves CONTROL_COMMAND only by a newer post, or by
\* the reset of a control_state poll that answers this very command.
C36_PostedCommandNeverLost ==
    [][(CONTROL_COMMAND \in {"abort", "go_home"}
          /\ CONTROL_COMMAND' # CONTROL_COMMAND)
        => \/ CONTROL_COMMAND' \in {"abort", "go_home"}
           \/ /\ CONTROL_COMMAND' = "none"
              /\ replies'.control_state = CONTROL_COMMAND]_vars

\* C37: return_home completes without error: it stores go_home, which the
\* next control_state poll answers, and it answers ok as abort_mission does.
C37_ReturnHomeAnswersOk ==
    /\ [](replies.return_home \in {NoReply, "ok"})
    /\ [](replies.abort_mission \in {NoReply, "ok"})
    /\ [][replies'.return_home # replies.return_home
            => CONTROL_COMMAND' = "go_home"]_vars

\* C38: a mission's record is closed by the first terminal status it gets:
\* once ended_at is set, no status changes the record's status or ended_at
\* (a registration by start_mission makes another record the current one).
C38_ClosedRecordStaysClosed ==
    [][(current_mission.ended_at # 0 /\ current_mission'.id = current_mission.id)
        => current_mission' = current_mission]_vars
============================================================================
